---------------------------- MODULE Spec2Model ----------------------------
(***************************************************************************)
(* A model of the database backup tool: the coordinator DatabaseBackup     *)
(* (src/src/backup.py), the task wrapper create_backup_task                *)
(* (src/src/main.py) and the backends it drives                            *)
(* (src/src/database_manager.py, src/src/minio_manager.py,                  *)
(* src/src/google_drive_manager.py).                                       *)
(*                                                                         *)
(* The module holds several specifications over one set of variables:      *)
(*   Spec           one backup job: create_backup, alone or as run by      *)
(*                  create_backup_task                                     *)
(*   SpecRetention  one sweep of clean_old_backups over a listing          *)
(*   SpecNaming     the default remote name, generated and parsed back     *)
(*   SpecCleanup    cleanup() applied to the working directory             *)
(*   SpecRestore    one restore_backup                                     *)
(*   SpecBackend    connect, is_connected and disconnect of one manager    *)
(*   SpecDelete     one delete_file of a storage manager                   *)
(*   SpecDump       one dump or restore of a database manager: the         *)
(*                  command it builds and what it leaves on disk           *)
(*   SpecDrive      one download_file, delete_file or upload_file then     *)
(*                  download_file on a storage seen as a store of files    *)
(*   SpecListing    one list_files over the pages of the backend's answer  *)
(*                  (SpecListingFair: the same, every request answered)    *)
(*   SpecFormat     the size text list_backups gives for a listed file     *)
(*   SpecMongoRestore  one MongoDBManager.restore of a backup file         *)
(*   SpecConnect    one GoogleDriveManager.connect                         *)
(*   SpecFlow       one run of the flow mysql_backup or postgres_backup    *)
(* Each specification moves its own variables and leaves the others at     *)
(* their idle values.                                                      *)
(***************************************************************************)
EXTENDS Integers, Sequences, FiniteSets, TLC

(***************************************************************************)
(* Text.  A file name is a sequence of characters.  A character is a       *)
(* decimal digit, one of the separators "_", "." and "/", or an opaque run *)
(* of letters ("backup", "sql"), of which the program looks at nothing but  *)
(* the length.                                                             *)
(***************************************************************************)
DigitChar == <<"0", "1", "2", "3", "4", "5", "6", "7", "8", "9">>

IsDigit(c) == \E i \in 1..10 : DigitChar[i] = c

DigitVal(c) == (CHOOSE i \in 1..10 : DigitChar[i] = c) - 1

AllDigits(s) == \A i \in 1..Len(s) : IsDigit(s[i])

\* int(s) for a string of decimal digits
RECURSIVE NumVal(_)
NumVal(s) ==
    IF Len(s) = 0 THEN 0
    ELSE NumVal(SubSeq(s, 1, Len(s) - 1)) * 10 + DigitVal(s[Len(s)])

\* the decimal digits of n, zero-padded on the left to at least w characters
RECURSIVE Decimal(_, _)
Decimal(n, w) ==
    IF n < 10 /\ w <= 1 THEN <<DigitChar[n + 1]>>
    ELSE Decimal(n \div 10, w - 1) \o <<DigitChar[(n % 10) + 1]>>

\* str.split(sep): the pieces of s between the occurrences of sep, never empty
RECURSIVE Split(_, _)
Split(s, sep) ==
    IF \A i \in 1..Len(s) : s[i] # sep THEN <<s>>
    ELSE LET k == CHOOSE i \in 1..Len(s) :
                      /\ s[i] = sep
                      /\ \A j \in 1..(i - 1) : s[j] # sep
         IN <<SubSeq(s, 1, k - 1)>> \o Split(SubSeq(s, k + 1, Len(s)), sep)

\* os.path.basename: what follows the last "/"
Basename(path) ==
    LET parts == Split(path, "/") IN parts[Len(parts)]

(***************************************************************************)
(* Dates.  A datetime is a record Y, M, D, h, m, s, us.  Comparison and    *)
(* subtraction of days go through the proleptic Gregorian ordinal, as in   *)
(* Python's datetime.                                                      *)
(***************************************************************************)
IsLeap(y) == (y % 4 = 0) /\ ((y % 100 # 0) \/ (y % 400 = 0))

DaysInMonth(y, m) ==
    IF m = 2 THEN (IF IsLeap(y) THEN 29 ELSE 28)
    ELSE IF m \in {4, 6, 9, 11} THEN 30 ELSE 31

RECURSIVE DaysBeforeMonth(_, _)
DaysBeforeMonth(y, m) ==
    IF m <= 1 THEN 0 ELSE DaysBeforeMonth(y, m - 1) + DaysInMonth(y, m - 1)

ToOrdinal(y, m, d) ==
    LET p == y - 1
    IN p * 365 + (p \div 4) - (p \div 100) + (p \div 400) + DaysBeforeMonth(y, m) + d

\* a point in time as <<day, second of the day, microsecond>>
Instant(t) == <<ToOrdinal(t.Y, t.M, t.D), t.h * 3600 + t.m * 60 + t.s, t.us>>

\* a < b on instants
Earlier(a, b) ==
    \/ a[1] < b[1]
    \/ a[1] = b[1] /\ a[2] < b[2]
    \/ a[1] = b[1] /\ a[2] = b[2] /\ a[3] < b[3]

\* now - datetime.timedelta(days=days)
MinusDays(inst, days) == <<inst[1] - days, inst[2], inst[3]>>

\* a format that does not pad its fields with zeros
StrftimeUnpadded(t) ==
    Decimal(t.Y, 4) \o Decimal(t.M, 1) \o Decimal(t.D, 1) \o <<"_">>
        \o Decimal(t.h, 1) \o Decimal(t.m, 1) \o Decimal(t.s, 1)

\* datetime.datetime.now().strftime("%Y%m%d_%H%M%S"); the microsecond is dropped
Strftime(t) ==
    Decimal(t.Y, 4) \o Decimal(t.M, 2) \o Decimal(t.D, 2) \o <<"_">>
        \o Decimal(t.h, 2) \o Decimal(t.m, 2) \o Decimal(t.s, 2)

(***************************************************************************)
(* datetime.datetime.strptime(f"{date_part}_{time_part}", "%Y%m%d_%H%M%S"). *)
(* The format compiles to a regular expression matched from the start of   *)
(* the text: %Y is four digits, the other fields take two digits when two  *)
(* digits form a value of the field and one digit otherwise, alternatives  *)
(* being tried in that order with backtracking.  Text left after the match *)
(* and field values outside the calendar raise ValueError.                 *)
(***************************************************************************)
OneOf(c, lo, hi) == IsDigit(c) /\ DigitVal(c) >= lo /\ DigitVal(c) <= hi

\* %m: 1[0-2] | 0[1-9] | [1-9]
MatchMonth(s) ==
    IF Len(s) = 2
    THEN \/ s[1] = "1" /\ OneOf(s[2], 0, 2)
         \/ s[1] = "0" /\ OneOf(s[2], 1, 9)
    ELSE Len(s) = 1 /\ OneOf(s[1], 1, 9)

\* %d: 3[0-1] | [1-2]\d | 0[1-9] | [1-9]  (the alternative " [1-9]" needs a
\* space, which no name of the model holds)
MatchDay(s) ==
    IF Len(s) = 2
    THEN \/ s[1] = "3" /\ OneOf(s[2], 0, 1)
         \/ OneOf(s[1], 1, 2) /\ IsDigit(s[2])
         \/ s[1] = "0" /\ OneOf(s[2], 1, 9)
    ELSE Len(s) = 1 /\ OneOf(s[1], 1, 9)

\* %H: 2[0-3] | [0-1]\d | \d
MatchHour(s) ==
    IF Len(s) = 2
    THEN \/ s[1] = "2" /\ OneOf(s[2], 0, 3)
         \/ OneOf(s[1], 0, 1) /\ IsDigit(s[2])
    ELSE Len(s) = 1 /\ IsDigit(s[1])

\* %M: [0-5]\d | \d
MatchMinute(s) ==
    IF Len(s) = 2
    THEN OneOf(s[1], 0, 5) /\ IsDigit(s[2])
    ELSE Len(s) = 1 /\ IsDigit(s[1])

\* %S: 6[0-1] | [0-5]\d | \d
MatchSecond(s) ==
    IF Len(s) = 2
    THEN \/ s[1] = "6" /\ OneOf(s[2], 0, 1)
         \/ OneOf(s[1], 0, 5) /\ IsDigit(s[2])
    ELSE Len(s) = 1 /\ IsDigit(s[1])

\* the field widths in the order the regular expression tries them
DateWidths == <<
    <<2, 2>>, <<2, 1>>, <<1, 2>>, <<1, 1>> >>

TimeWidths == <<
    <<2, 2, 2>>, <<2, 2, 1>>, <<2, 1, 2>>, <<2, 1, 1>>,
    <<1, 2, 2>>, <<1, 2, 1>>, <<1, 1, 2>>, <<1, 1, 1>> >>

\* %Y%m%d followed by the literal "_": the fields must end where the date part ends
DateFits(d, w) ==
    /\ Len(d) = 4 + w[1] + w[2]
    /\ AllDigits(SubSeq(d, 1, 4))
    /\ MatchMonth(SubSeq(d, 5, 4 + w[1]))
    /\ MatchDay(SubSeq(d, 5 + w[1], Len(d)))

\* %H%M%S at the end of the format: the fields match a prefix of the time part
TimeFits(t, w) ==
    /\ Len(t) >= w[1] + w[2] + w[3]
    /\ MatchHour(SubSeq(t, 1, w[1]))
    /\ MatchMinute(SubSeq(t, w[1] + 1, w[1] + w[2]))
    /\ MatchSecond(SubSeq(t, w[1] + w[2] + 1, w[1] + w[2] + w[3]))

NoDate == [ok |-> FALSE, Y |-> 0, M |-> 0, D |-> 0, h |-> 0, m |-> 0, s |-> 0, us |-> 0]

Strptime(date_part, time_part) ==
    IF \/ ~ \E i \in 1..Len(DateWidths) : DateFits(date_part, DateWidths[i])
       \/ ~ \E i \in 1..Len(TimeWidths) : TimeFits(time_part, TimeWidths[i])
    THEN NoDate
    ELSE LET dw == DateWidths[CHOOSE i \in 1..Len(DateWidths) :
                       /\ DateFits(date_part, DateWidths[i])
                       /\ \A j \in 1..(i - 1) : ~ DateFits(date_part, DateWidths[j])]
             tw == TimeWidths[CHOOSE i \in 1..Len(TimeWidths) :
                       /\ TimeFits(time_part, TimeWidths[i])
                       /\ \A j \in 1..(i - 1) : ~ TimeFits(time_part, TimeWidths[j])]
             Y  == NumVal(SubSeq(date_part, 1, 4))
             M  == NumVal(SubSeq(date_part, 5, 4 + dw[1]))
             D  == NumVal(SubSeq(date_part, 5 + dw[1], Len(date_part)))
             h  == NumVal(SubSeq(time_part, 1, tw[1]))
             m  == NumVal(SubSeq(time_part, tw[1] + 1, tw[1] + tw[2]))
             s  == NumVal(SubSeq(time_part, tw[1] + tw[2] + 1, tw[1] + tw[2] + tw[3]))
         IN IF \/ Len(time_part) # tw[1] + tw[2] + tw[3]    \* unconverted data remains
               \/ Y < 1                                      \* year out of range
               \/ D > DaysInMonth(Y, M)                      \* day out of range for month
               \/ s > 59                                     \* second must be in 0..59
            THEN NoDate
            ELSE [ok |-> TRUE, Y |-> Y, M |-> M, D |-> D, h |-> h, m |-> m, s |-> s, us |-> 0]

(***************************************************************************)
(* clean_old_backups, lines 227-233: the timestamp of one listed entry.    *)
(* err is "IndexError" when the basename has fewer than three "_" tokens,  *)
(* "ValueError" when strptime refuses the second and third token, and      *)
(* "none" when file_date holds the parsed datetime.                        *)
(***************************************************************************)
FileDate(file_path) ==
    LET filename == Basename(file_path)
        tokens   == Split(filename, "_")
    IN IF Len(tokens) < 3
       THEN [err |-> "IndexError", file_date |-> NoDate]
       ELSE LET date_part == tokens[2]
                time_part == Split(tokens[3], ".")[1]
                parsed    == Strptime(date_part, time_part)
            IN IF parsed.ok
               THEN [err |-> "none", file_date |-> parsed]
               ELSE [err |-> "ValueError", file_date |-> NoDate]

\* create_backup, lines 71-72: f"backup_{timestamp}.sql"
DefaultRemotePath(now) == <<"backup", "_">> \o Strftime(now) \o <<".", "sql">>

(***************************************************************************)
(* State.                                                                  *)
(*   now, client, bucket, backup_dir   the wall clock, the storage         *)
(*       backend's client, the objects of its bucket, and the working      *)
(*       directory on the local disk                                       *)
(*   the other variables of create_backup and create_backup_task are       *)
(*       described where the job is.                                       *)
(***************************************************************************)
VARIABLES
    now,                \* datetime.datetime.now()
    client,             \* MinioManager.client: "none", "live", or "dead" (the server no longer answers)
    bucket,             \* the names of the objects in the bucket
    backup_dir,         \* DatabaseBackup.backup_dir on disk: [exists, files]
    pc,                 \* where create_backup / create_backup_task stands
    viaTask,            \* TRUE when create_backup is run by create_backup_task
    remove_local,       \* argument of create_backup
    remote_path,        \* argument of create_backup, NoPath for None
    db_kind,            \* which DatabaseManager the coordinator was given
    connection,         \* the database manager's connection: "none", "live", "dead"
    local_backup_path,  \* what dump returned, NoFile before
    storage_path,       \* what upload_file returned, NoPath before
    returned,           \* what create_backup returned, NoPath if nothing
    trace,              \* the backend calls create_backup made, in order
    rpc,                \* where clean_old_backups stands
    days,               \* argument of clean_old_backups
    prefix,             \* argument of clean_old_backups, NoPath for None
    listed,             \* the bucket when clean_old_backups listed it
    files,              \* what list_files returned
    idx,                \* the entry of files the loop is at
    deleted_count,      \* the counter clean_old_backups returns
    delete_calls,       \* the paths passed to delete_file, in order
    delete_results,     \* how each of these calls ended: "True", "False", "raised"
    npc,                \* where a default name stands: generated, stored, parsed
    generated,          \* the remote name create_backup generated, NoPath before
    parsed_date,        \* what clean_old_backups made of that name
    cleanups,           \* the calls of cleanup() that returned
    backup_path,        \* argument of restore_backup
    local_path,         \* argument of restore_backup, NoPath for None
    downloaded_path,    \* what download_file returned, NoPath before
    local_copy,         \* whether the downloaded file is on the local disk
    restored,           \* what restore_backup returned: "none" before, "True"
    backend,            \* the backend variant a manager object belongs to
    handle,             \* self.connection / self.client / self.service: 0 for None,
                        \* else the number of the connection or client object
    opened,             \* how many connections or client objects connect() has made
    live,               \* the database connections that are open and answer
    abandoned,          \* the handles replaced without close() being called
    server_up,          \* whether the server answers
    last,               \* the last call on the manager and how it ended
    storage,            \* the storage variant an operation is called on
    del_path,           \* argument of delete_file
    del_before,         \* the stored objects when delete_file was called
    del_outcome,        \* how delete_file ended: "none" before, "True", "False", "raised"
    call,               \* a call of dump or restore on a database manager: its arguments
    cmd,                \* the command the call built, <<>> before
    extra_args,         \* the arguments of cmd that come from extra_options
    child_env,          \* what the call adds to the environment of the child process
    output_name,        \* the file name dump chose, NoPath before
    artifacts,          \* what the dump has left in output_dir
    db_outcome,         \* how the call ended: "none" before, "returned", "raised"
    store,              \* the files a storage holds: [id, name, in_folder, is_folder, content]
    folder_id,          \* the configured Google Drive folder, "none" when not configured
    ref,                \* the reference (remote_path) an operation is called with
    req,                \* the operation requested: "download", "delete", "roundtrip"
    dpc,                \* where the storage operation stands
    dr_outcome,         \* how the operation ended, "none" before
    via,                \* how the reference was taken: "none", "id", "name"
    hit,                \* the id of the file the operation acted on, NoPath when none
    got,                \* the contents download_file wrote to the local file
    store_before,       \* the files the storage held when the last operation began
    dr_faults,          \* the backend calls of the operation that were made to fail
    pages,              \* the pages the backend answers a listing with, in order
    page_token,         \* the page list_files asks for next, 0 for None
    result,             \* the (name, size) pairs list_files has collected
    requests,           \* how many pages list_files has requested
    lpc,                \* where list_files stands: "start", "loop", "returned", "raised"
    file_size,          \* the size of a listed file: num * 1024^up / 1024^down bytes
    size_human,         \* the text list_backups gives for it, <<>> before
    fpc,                \* where list_backups stands with the entry: "start", "done"
    origin,             \* how the backup file came to the machine that restores it
    sql_file,           \* the argument of MongoDBManager.restore, NoPath before
    temp_dir,           \* restore's temp_dir: "None", or "made" once mkdtemp has returned
    scratch,            \* whether the directory mkdtemp made exists
    mongo_arg,          \* what mongorestore is given: "none", "file", "extracted"
    mr_options,         \* extra_options, and whether credentials and a database directory exist
    mr_cmd,             \* the command restore built, <<>> before
    mr_outcome,         \* how restore ended: "none" before
    auth_mode,          \* "service_account" when that file is configured and exists, else "oauth"
    token_store,        \* the credentials pickled at token_path
    token_before,       \* token_store when connect was called
    cred_file,          \* whether the file at credentials_path exists
    service,            \* self.service: "none" or "built"
    gd_steps,           \* what connect has done, in order
    gd_outcome,         \* how connect ended: "none" before, "returned", or the exception
    flow_pc             \* where a backup flow stands: "task1", "task2", "done", "failed"

envVars == <<now, client, bucket, backup_dir>>

jobVars == <<pc, viaTask, remove_local, remote_path, db_kind, connection,
             local_backup_path, storage_path, returned, trace>>

retVars == <<rpc, days, prefix, listed, files, idx, deleted_count, delete_calls,
             delete_results>>

namVars == <<npc, generated, parsed_date>>

clnVars == <<cleanups>>

rstVars == <<backup_path, local_path, downloaded_path, local_copy, restored>>

bkVars == <<backend, handle, opened, live, abandoned, server_up, last>>

\* the variables of the components that follow the first four
delVars == <<storage, del_path, del_before, del_outcome>>

dmpVars == <<call, cmd, extra_args, child_env, output_name, artifacts, db_outcome>>

drvVars == <<store, folder_id, ref, req, dpc, dr_outcome, via, hit, got, store_before,
             dr_faults>>

\* the variables of the components that follow the dump commands
lstVars == <<pages, page_token, result, requests, lpc>>

fmtVars == <<file_size, size_human, fpc>>

mgoVars == <<origin, sql_file, temp_dir, scratch, mongo_arg, mr_options, mr_cmd,
             mr_outcome>>

conVars == <<auth_mode, token_store, token_before, cred_file, service, gd_steps, gd_outcome>>

flwVars == <<flow_pc>>

lateVars == <<drvVars, lstVars, fmtVars, mgoVars, conVars, flwVars>>

otherVars == <<rstVars, bkVars, delVars, dmpVars, lateVars>>

\* the variables a specification other than the job's leaves alone, and so on
notJobVars == <<retVars, namVars, clnVars, otherVars>>

notRetVars == <<jobVars, backup_dir, namVars, clnVars, otherVars>>

notNamVars == <<client, backup_dir, jobVars, retVars, clnVars, otherVars>>

notClnVars == <<now, client, bucket, jobVars, retVars, namVars, otherVars>>

NoPath == <<>>

\* the values the variables of a component keep while another component runs
JobIdle ==
    /\ pc = "idle"
    /\ viaTask = FALSE
    /\ remove_local = FALSE
    /\ remote_path = NoPath
    /\ db_kind = "mysql"
    /\ connection = "none"
    /\ local_backup_path = "None"
    /\ storage_path = NoPath
    /\ returned = NoPath
    /\ trace = <<>>

RetIdle ==
    /\ rpc = "idle"
    /\ days = 0
    /\ prefix = NoPath
    /\ listed = {}
    /\ files = <<>>
    /\ idx = 0
    /\ deleted_count = 0
    /\ delete_calls = <<>>
    /\ delete_results = <<>>

NoFile == "None"

NamIdle ==
    /\ npc = "idle"
    /\ generated = NoPath
    /\ parsed_date = [err |-> "none", file_date |-> NoDate]

ClnIdle == cleanups = 0

RstIdle ==
    /\ backup_path = NoPath
    /\ local_path = NoPath
    /\ downloaded_path = NoPath
    /\ local_copy = FALSE
    /\ restored = "none"

NoCall == [op |-> "none", outcome |-> "none", probe |-> "none",
           connected_before |-> FALSE, connected_after |-> FALSE,
           handle_before |-> 0, opened_before |-> 0]

BkIdle ==
    /\ backend = "none"
    /\ handle = 0
    /\ opened = 0
    /\ live = {}
    /\ abandoned = {}
    /\ server_up = FALSE
    /\ last = NoCall

DelIdle ==
    /\ storage = "none"
    /\ del_path = NoPath
    /\ del_before = {}
    /\ del_outcome = "none"

NoDbCall == [op |-> "none", kind |-> "none", lock_tables |-> FALSE, filename |-> NoPath,
             extra_options |-> <<>>, all_databases |-> "omitted", auth |-> FALSE,
             file_exists |-> FALSE, has_db_dir |-> FALSE]

DmpIdle ==
    /\ call = NoDbCall
    /\ cmd = <<>>
    /\ extra_args = <<>>
    /\ child_env = {}
    /\ output_name = NoPath
    /\ artifacts = {}
    /\ db_outcome = "none"

DrvIdle ==
    /\ store = {}
    /\ folder_id = "none"
    /\ ref = NoPath
    /\ req = "none"
    /\ dpc = "idle"
    /\ dr_outcome = "none"
    /\ via = "none"
    /\ hit = NoPath
    /\ got = "none"
    /\ store_before = {}
    /\ dr_faults = {}

LstIdle ==
    /\ pages = <<>>
    /\ page_token = 0
    /\ result = <<>>
    /\ requests = 0
    /\ lpc = "idle"

FmtIdle ==
    /\ file_size = [num |-> 0, up |-> 0, down |-> 0]
    /\ size_human = <<>>
    /\ fpc = "idle"

NoChain == [kind |-> "none", remote_path |-> NoPath, local_path |-> NoPath]

MgoIdle ==
    /\ origin = NoChain
    /\ sql_file = NoPath
    /\ temp_dir = "None"
    /\ scratch = FALSE
    /\ mongo_arg = "none"
    /\ mr_options = [extra_options |-> <<>>, auth |-> FALSE, has_db_dir |-> FALSE]
    /\ mr_cmd = <<>>
    /\ mr_outcome = "none"

\* no file at token_path
NoToken == [present |-> FALSE, token |-> FALSE, expired |-> FALSE, refresh_token |-> FALSE]

ConIdle ==
    /\ auth_mode = "none"
    /\ token_store = NoToken
    /\ token_before = NoToken
    /\ cred_file = FALSE
    /\ service = "none"
    /\ gd_steps = <<>>
    /\ gd_outcome = "none"

FlwIdle == flow_pc = "idle"

LateIdle == DrvIdle /\ LstIdle /\ FmtIdle /\ MgoIdle /\ ConIdle /\ FlwIdle

OthersIdle == RstIdle /\ BkIdle /\ DelIdle /\ DmpIdle /\ LateIdle

DbKinds == {"mysql", "postgresql", "mongodb"}

ConnStates == {"none", "live", "dead"}

\* the file a successful dump leaves in output_dir: <database>_<timestamp>.sql,
\* and for MongoDB the archive <database>_<timestamp>.tar.gz
DumpFile(kind) == IF kind = "mongodb" THEN "dump.tar.gz" ELSE "dump.sql"

\* how a dump can end
DumpOutcomes(kind) ==
    IF kind = "mongodb" THEN {"ok", "tool_failed", "archive_failed"}
    ELSE {"ok", "tool_failed"}

\* what a dump that ended with outcome leaves of its output in the directory
DumpLeaves(kind, outcome, present) ==
    IF outcome = "ok" THEN present \cup {DumpFile(kind)}
    ELSE IF outcome = "archive_failed" THEN present \cup {DumpFile(kind)}
    ELSE present \ {DumpFile(kind)}

(***************************************************************************)
(* `if not manager.is_connected(): manager.connect()`.  is_connected       *)
(* probes the server: alive says whether a live connection still answers,  *)
(* ok whether connect() succeeds.  The result holds the connection         *)
(* afterwards, whether connect raised, and the calls made.                 *)
(***************************************************************************)
\* a coordinator that connects without asking is_connected first
DbConnectAlways(c, alive, ok) ==
    IF ok
    THEN [conn |-> "live", raised |-> FALSE, calls |-> <<"db.connect", "db.connect.returned">>]
    ELSE [conn |-> IF c = "none" THEN "none" ELSE "dead", raised |-> TRUE,
          calls |-> <<"db.connect", "db.connect.raised">>]

DbEnsureConnected(c, alive, ok) ==
    IF c = "live" /\ alive
    THEN [conn |-> "live", raised |-> FALSE, calls |-> <<"db.alive">>]
    ELSE IF ok
    THEN [conn |-> "live", raised |-> FALSE,
          calls |-> <<"db.not_alive", "db.connect", "db.connect.returned">>]
    ELSE [conn |-> IF c = "none" THEN "none" ELSE "dead", raised |-> TRUE,
          calls |-> <<"db.not_alive", "db.connect", "db.connect.raised">>]

\* MinioManager.connect assigns self.client before it asks for the bucket
StEnsureConnected(c, alive, ok) ==
    IF c = "live" /\ alive
    THEN [conn |-> "live", raised |-> FALSE, calls |-> <<"st.alive">>]
    ELSE IF ok
    THEN [conn |-> "live", raised |-> FALSE,
          calls |-> <<"st.not_alive", "st.connect", "st.connect.returned">>]
    ELSE [conn |-> "dead", raised |-> TRUE,
          calls |-> <<"st.not_alive", "st.connect", "st.connect.raised">>]

\* DatabaseManager.disconnect: MySQL closes only a connection that still answers
disconnect(kind, c, alive) ==
    IF kind = "mysql"
    THEN (IF c = "live" /\ alive THEN "none" ELSE IF c = "live" THEN "dead" ELSE c)
    ELSE "none"

\* DatabaseBackup.cleanup: rmtree and makedirs, only when the directory exists
cleanup(dir) ==
    IF dir.exists THEN [exists |-> TRUE, files |-> {}] ELSE dir

(***************************************************************************)
(* The backup job.  pc runs through create_backup:                         *)
(*   "cb_db" -> "cb_st" -> "cb_dump" -> "cb_upload" -> "cb_remove"         *)
(*   -> "cb_returned", or -> "cb_raised" from any step that raises,        *)
(* and, when create_backup_task runs it, on through the task:              *)
(*   "cb_returned" -> "t_listed" | "t_list_raised" -> "t_returned" |       *)
(*   "t_raised", and "cb_raised" -> "t_raised".                            *)
(***************************************************************************)
JobClock == {[Y |-> 2024, M |-> 3, D |-> 31, h |-> 12, m |-> 0, s |-> 0, us |-> 1]}

CustomRemotePath == <<"nightly", ".", "sql">>

OldObject == <<"backup", "_", "2", "0", "2", "4", "0", "1", "0", "1", "_",
               "0", "0", "0", "0", "0", "0", ".", "sql">>

StaleFile == "stale.sql"

\* create_backup, lines 54-56
create_backup_connect_db ==
    /\ pc = "cb_db"
    /\ \E alive \in BOOLEAN, ok \in BOOLEAN :
          LET r == DbEnsureConnected(connection, alive, ok)
          IN /\ connection' = r.conn
             /\ trace' = trace \o r.calls
             /\ pc' = IF r.raised THEN "cb_raised" ELSE "cb_st"
    /\ UNCHANGED <<viaTask, remove_local, remote_path, db_kind, local_backup_path,
                   storage_path, returned>>
    /\ UNCHANGED envVars
    /\ UNCHANGED notJobVars

\* create_backup, lines 58-60
create_backup_connect_storage ==
    /\ pc = "cb_st"
    /\ \E alive \in BOOLEAN, ok \in BOOLEAN :
          LET r == StEnsureConnected(client, alive, ok)
          IN /\ client' = r.conn
             /\ trace' = trace \o r.calls
             /\ pc' = IF r.raised THEN "cb_raised" ELSE "cb_dump"
    /\ UNCHANGED <<viaTask, remove_local, remote_path, db_kind, connection,
                   local_backup_path, storage_path, returned>>
    /\ UNCHANGED <<now, bucket, backup_dir>>
    /\ UNCHANGED notJobVars

\* create_backup, lines 62-67: db_manager.dump(output_dir=self.backup_dir, ...)
create_backup_dump ==
    /\ pc = "cb_dump"
    /\ \E outcome \in DumpOutcomes(db_kind) :
          /\ backup_dir' = [exists |-> TRUE,
                            files |-> DumpLeaves(db_kind, outcome, backup_dir.files)]
          /\ IF outcome = "ok"
             THEN /\ local_backup_path' = DumpFile(db_kind)
                  /\ trace' = trace \o <<"dump", "dump.returned">>
                  /\ pc' = "cb_upload"
             ELSE /\ local_backup_path' = local_backup_path
                  /\ trace' = trace \o <<"dump", "dump.raised">>
                  /\ pc' = "cb_raised"
    /\ UNCHANGED <<viaTask, remove_local, remote_path, db_kind, connection,
                   storage_path, returned>>
    /\ UNCHANGED <<now, client, bucket>>
    /\ UNCHANGED notJobVars

\* an upload whose failure is logged and swallowed instead of re-raised
create_backup_upload_swallowed ==
    /\ pc = "cb_upload"
    /\ \E alive \in BOOLEAN, ok \in BOOLEAN, put \in BOOLEAN :
          LET name == IF remote_path = NoPath THEN DefaultRemotePath(now) ELSE remote_path
              r    == StEnsureConnected(client, alive, ok)
              sent == ~r.raised /\ local_backup_path \in backup_dir.files /\ put
          IN /\ client' = r.conn
             /\ bucket' = IF sent THEN bucket \cup {name} ELSE bucket
             /\ storage_path' = IF sent THEN name ELSE storage_path
             /\ trace' = trace \o <<"upload">> \o r.calls
                               \o <<IF sent THEN "upload.returned" ELSE "upload.raised">>
             /\ pc' = "cb_remove"
    /\ UNCHANGED <<viaTask, remove_local, remote_path, db_kind, connection,
                   local_backup_path, returned>>
    /\ UNCHANGED <<now, backup_dir>>
    /\ UNCHANGED notJobVars

\* create_backup, lines 69-78, with MinioManager.upload_file, lines 167-212
create_backup_upload ==
    /\ pc = "cb_upload"
    /\ \E alive \in BOOLEAN, ok \in BOOLEAN, put \in BOOLEAN :
          LET name == IF remote_path = NoPath THEN DefaultRemotePath(now) ELSE remote_path
              r    == StEnsureConnected(client, alive, ok)
              sent == ~r.raised /\ local_backup_path \in backup_dir.files /\ put
          IN /\ client' = r.conn
             /\ bucket' = IF sent THEN bucket \cup {name} ELSE bucket
             /\ storage_path' = IF sent THEN name ELSE storage_path
             /\ trace' = trace \o <<"upload">> \o r.calls
                               \o <<IF sent THEN "upload.returned" ELSE "upload.raised">>
             /\ pc' = IF sent THEN "cb_remove" ELSE "cb_raised"
    /\ UNCHANGED <<viaTask, remove_local, remote_path, db_kind, connection,
                   local_backup_path, returned>>
    /\ UNCHANGED <<now, backup_dir>>
    /\ UNCHANGED notJobVars

\* create_backup, lines 80-86: the local file is removed only here, after the upload
create_backup_remove_local ==
    /\ pc = "cb_remove"
    /\ IF remove_local /\ local_backup_path \in backup_dir.files
       THEN /\ backup_dir' = [backup_dir EXCEPT !.files = @ \ {local_backup_path}]
            /\ trace' = Append(trace, "remove")
       ELSE UNCHANGED <<backup_dir, trace>>
    /\ returned' = storage_path
    /\ pc' = "cb_returned"
    /\ UNCHANGED <<viaTask, remove_local, remote_path, db_kind, connection,
                   local_backup_path, storage_path>>
    /\ UNCHANGED <<now, client, bucket>>
    /\ UNCHANGED notJobVars

\* create_backup_task, lines 22-28: backup.list_backups() after the backup;
\* list_backups and list_files each check the connection and either can raise
task_list_backups ==
    /\ pc = "cb_returned"
    /\ viaTask
    /\ \E alive1 \in BOOLEAN, ok1 \in BOOLEAN, alive2 \in BOOLEAN, ok2 \in BOOLEAN,
          answered \in BOOLEAN :
          LET r1 == StEnsureConnected(client, alive1, ok1)
              r2 == StEnsureConnected(r1.conn, alive2, ok2)
          IN IF r1.raised
             THEN client' = r1.conn /\ pc' = "t_list_raised"
             ELSE /\ client' = r2.conn
                  /\ pc' = IF ~r2.raised /\ answered THEN "t_listed" ELSE "t_list_raised"
    /\ UNCHANGED <<viaTask, remove_local, remote_path, db_kind, connection,
                   local_backup_path, storage_path, returned, trace>>
    /\ UNCHANGED <<now, bucket, backup_dir>>
    /\ UNCHANGED notJobVars

\* a task that disconnects and cleans up at the end of the try body only
task_finally_on_success_only ==
    /\ viaTask
    /\ pc \in {"cb_raised", "t_listed", "t_list_raised"}
    /\ IF pc = "t_listed"
       THEN /\ \E alive \in BOOLEAN : connection' = disconnect(db_kind, connection, alive)
            /\ backup_dir' = cleanup(backup_dir)
       ELSE UNCHANGED <<connection, backup_dir>>
    /\ pc' = IF pc = "t_listed" THEN "t_returned" ELSE "t_raised"
    /\ UNCHANGED <<viaTask, remove_local, remote_path, db_kind,
                   local_backup_path, storage_path, returned, trace>>
    /\ UNCHANGED <<now, client, bucket>>
    /\ UNCHANGED notJobVars

\* create_backup_task, lines 30-38: on every path, db_manager.disconnect()
\* and backup.cleanup()
task_finally ==
    /\ viaTask
    /\ pc \in {"cb_raised", "t_listed", "t_list_raised"}
    /\ \E alive \in BOOLEAN : connection' = disconnect(db_kind, connection, alive)
    /\ backup_dir' = cleanup(backup_dir)
    /\ pc' = IF pc = "t_listed" THEN "t_returned" ELSE "t_raised"
    /\ UNCHANGED <<viaTask, remove_local, remote_path, db_kind,
                   local_backup_path, storage_path, returned, trace>>
    /\ UNCHANGED <<now, client, bucket>>
    /\ UNCHANGED notJobVars

\* DatabaseBackup.__init__ has run: the working directory exists.  The task
\* calls create_backup(lock_tables=False), all other arguments at their defaults.
Init ==
    /\ now \in JobClock
    /\ client \in ConnStates
    /\ bucket \in SUBSET {OldObject}
    /\ backup_dir \in [exists : {TRUE}, files : SUBSET {StaleFile}]
    /\ pc = "cb_db"
    /\ viaTask \in BOOLEAN
    /\ remove_local \in (IF viaTask THEN {TRUE} ELSE BOOLEAN)
    /\ remote_path \in (IF viaTask THEN {NoPath} ELSE {NoPath, CustomRemotePath})
    /\ db_kind \in DbKinds
    /\ connection \in ConnStates
    /\ local_backup_path = NoFile
    /\ storage_path = NoPath
    /\ returned = NoPath
    /\ trace = <<>>
    /\ RetIdle
    /\ NamIdle
    /\ ClnIdle
    /\ OthersIdle

Next ==
    \/ create_backup_connect_db
    \/ create_backup_connect_storage
    \/ create_backup_dump
    \/ create_backup_upload
    \/ create_backup_remove_local
    \/ task_list_backups
    \/ task_finally

vars == <<envVars, jobVars, retVars, namVars, clnVars, otherVars>>

Spec == Init /\ [][Next]_vars

(***************************************************************************)
(* Properties of the backup job.                                           *)
(***************************************************************************)
Has(seq, e) == \E i \in 1..Len(seq) : seq[i] = e

Count(seq, e) == Cardinality({i \in 1..Len(seq) : seq[i] = e})

Before(seq, es, i) == \E j \in 1..(i - 1) : seq[j] \in es

CreateBackupExited == pc \in {"cb_returned", "cb_raised"}

CreateBackupRaised ==
    \E i \in 1..Len(trace) :
        trace[i] \in {"db.connect.raised", "st.connect.raised", "dump.raised", "upload.raised"}

\* C1: with remove_local = true, once dump has returned a local file, that file
\* no longer exists whenever create_backup has returned or raised, the path on
\* which the upload raises included.
C1_LocalDumpGoneOnExit ==
    (CreateBackupExited /\ remove_local /\ local_backup_path # NoFile)
        => local_backup_path \notin backup_dir.files

\* C7: create_backup never swallows a failure and never retries: when connect,
\* dump or upload raised, create_backup ends raising and returns no remote
\* identifier, and dump and upload are each invoked at most once.
C7_NoSwallowNoRetry ==
    /\ Count(trace, "dump") <= 1
    /\ Count(trace, "upload") <= 1
    /\ CreateBackupRaised =>
          /\ pc \in {"cb_raised", "t_raised"}
          /\ returned = NoPath
    /\ pc = "cb_raised" => returned = NoPath

C7_Witness ==
    /\ pc = "cb_raised"
    /\ Has(trace, "upload.raised")
    /\ Count(trace, "dump") = 1
    /\ Count(trace, "upload") = 1

\* C8: create_backup runs connect database (only if not connected), connect
\* storage (only if not connected), dump, upload, local delete in that order:
\* dump is invoked only after both backends were found or made connected,
\* upload only after dump returned, the local delete only after the upload
\* returned, and connect is called only on a backend whose is_connected just
\* answered false.
C8_StepOrder ==
    \A i \in 1..Len(trace) :
        /\ trace[i] = "db.connect" => (i > 1 /\ trace[i - 1] = "db.not_alive")
        /\ trace[i] = "st.connect" => (i > 1 /\ trace[i - 1] = "st.not_alive")
        /\ trace[i] \in {"st.alive", "st.not_alive"} =>
              Before(trace, {"db.alive", "db.connect.returned"}, i)
        /\ trace[i] = "dump" =>
              /\ Before(trace, {"db.alive", "db.connect.returned"}, i)
              /\ Before(trace, {"st.alive", "st.connect.returned"}, i)
        /\ trace[i] = "upload" => Before(trace, {"dump.returned"}, i)
        /\ trace[i] = "remove" => Before(trace, {"upload.returned"}, i)
        /\ trace[i] \in {"db.alive", "db.not_alive", "db.connect"} =>
              ~ Before(trace, {"st.alive", "st.not_alive", "dump", "upload", "remove"}, i)

C8_Witness ==
    /\ pc = "cb_returned"
    /\ Has(trace, "db.connect.returned")
    /\ Has(trace, "st.alive")
    /\ Has(trace, "remove")

\* C9: after create_backup_task has exited, on the returning path and on every
\* raising path, the database backend holds no live connection and the working
\* directory holds no dump file.
C9_TaskLeavesNothing ==
    pc \in {"t_returned", "t_raised"} =>
        /\ connection # "live"
        /\ backup_dir.files \cap {DumpFile(k) : k \in DbKinds} = {}

C9_Witness ==
    /\ pc = "t_raised"
    /\ Has(trace, "upload.raised")
    /\ local_backup_path # NoFile
    /\ connection = "none"

(***************************************************************************)
(* Retention.  The objects a bucket may hold, in the order list_objects    *)
(* returns them (by key).  stamp is the date and time written in the name  *)
(* and conv says that the name follows the convention                      *)
(* <prefix>_<YYYYMMDD>_<HHMMSS>[.<ext>] with a prefix that holds no        *)
(* date-shaped token; both are what a reader of the name sees, not what    *)
(* the program computes.                                                   *)
(***************************************************************************)
Objects == <<
    [name  |-> <<"backup", "_", "2", "0", "2", "4", "0", "2", "2", "0", "_", "1", "2", "0", "0", "0", "0", ".", "sql">>,
     stamp |-> [ok |-> TRUE, Y |-> 2024, M |-> 2, D |-> 20, h |-> 12, m |-> 0, s |-> 0, us |-> 0],
     conv  |-> TRUE],
    [name  |-> <<"backup", "_", "2", "0", "2", "4", "2", "2", "0", "_", "1", "2", "0", "0", ".", "sql">>,
     stamp |-> NoDate,
     conv  |-> FALSE],
    [name  |-> <<"backup", "_", "2", "0", "2", "4", "0", "2", "3", "0", "_", "1", "2", "0", "0", "0", "0", ".", "sql">>,
     stamp |-> NoDate,
     conv  |-> FALSE],
    [name  |-> <<"backup", "_", "2", "0", "2", "4", "0", "3", "0", "1", "_", "1", "2", "0", "0", "0", "0", ".", "sql">>,
     stamp |-> [ok |-> TRUE, Y |-> 2024, M |-> 3, D |-> 1, h |-> 12, m |-> 0, s |-> 0, us |-> 0],
     conv  |-> TRUE],
    [name  |-> <<"backup", "_", "2", "0", "2", "4", "0", "3", "2", "4", "_", "1", "1", "5", "9", "5", "9", ".", "sql">>,
     stamp |-> [ok |-> TRUE, Y |-> 2024, M |-> 3, D |-> 24, h |-> 11, m |-> 59, s |-> 59, us |-> 0],
     conv  |-> TRUE],
    [name  |-> <<"backup", "_", "2", "0", "2", "4", "0", "3", "3", "0", "_", "1", "2", "0", "0", "0", "0">>,
     stamp |-> [ok |-> TRUE, Y |-> 2024, M |-> 3, D |-> 30, h |-> 12, m |-> 0, s |-> 0, us |-> 0],
     conv  |-> TRUE],
    [name  |-> <<"backup", "_", "notes", ".", "sql">>,
     stamp |-> NoDate,
     conv  |-> FALSE],
    [name  |-> <<"dumps", "/", "orders", "_", "2", "0", "2", "4", "0", "2", "2", "0", "_", "1", "1", "5", "9", "5", "9", ".", "sql", ".", "gz">>,
     stamp |-> [ok |-> TRUE, Y |-> 2024, M |-> 2, D |-> 20, h |-> 11, m |-> 59, s |-> 59, us |-> 0],
     conv  |-> TRUE],
    [name  |-> <<"my", "_", "db", "_", "2", "0", "2", "4", "0", "2", "2", "0", "_", "1", "2", "0", "0", "0", "0", ".", "sql">>,
     stamp |-> [ok |-> TRUE, Y |-> 2024, M |-> 2, D |-> 20, h |-> 12, m |-> 0, s |-> 0, us |-> 0],
     conv  |-> TRUE],
    [name  |-> <<"readme", ".", "txt">>,
     stamp |-> NoDate,
     conv  |-> FALSE] >>

ObjectNames == [i \in 1..Len(Objects) |-> Objects[i].name]

\* the most objects a bucket holds
MaxObjects == 3

\* the clock of a sweep: 2024-03-31 12:00:00, on the second and just after it
RetClock ==
    {[Y |-> 2024, M |-> 3, D |-> 31, h |-> 12, m |-> 0, s |-> 0, us |-> u] : u \in {0, 1}}

\* days: the default of clean_old_backups and what main.py passes
RetDays == {30, 7}

\* prefix: None, or a key prefix
RetPrefixes == {NoPath, <<"backup", "_">>}

StartsWith(name, pfx) ==
    Len(name) >= Len(pfx) /\ SubSeq(name, 1, Len(pfx)) = pfx

\* MinioManager.list_files: the objects under prefix, by key; an object that is
\* not in the table is the backup the flow has just uploaded, whose key is the last
Listing(objects, pfx) ==
    LET known == SelectSeq(ObjectNames, LAMBDA n : n \in objects /\ StartsWith(n, pfx))
        others == {n \in objects : StartsWith(n, pfx)
                                      /\ \A i \in 1..Len(ObjectNames) : ObjectNames[i] # n}
    IN known \o (IF others = {} THEN <<>>
                 ELSE CHOOSE q \in [1..Cardinality(others) -> others] :
                         \A n \in others : \E i \in 1..Len(q) : q[i] = n)

\* an entry that is deleted also when its date equals the cutoff
ExpiredOrAtCutoff(file_date, cutoff_date) ==
    ~ Earlier(cutoff_date, Instant(file_date))

\* clean_old_backups, line 236: file_date < cutoff_date
Expired(file_date, cutoff_date) ==
    Earlier(Instant(file_date), cutoff_date)

\* a handler that forgets IndexError
CaughtValueErrorOnly(err) == err = "ValueError"

\* clean_old_backups, line 241: except (IndexError, ValueError)
Caught(err) == err \in {"IndexError", "ValueError"}

\* how remove_object can end: the object is removed, S3Error, or another
\* exception of the client (a lost connection, an invalid response)
RemoveOutcomes == {"removed", "S3Error", "error"}

(***************************************************************************)
(* MinioManager.delete_file(path): connects when is_connected says  *)
(* no, which raises when the server cannot be reached; S3Error from        *)
(* remove_object is caught and gives False, any other exception leaves     *)
(* delete_file.                                                            *)
(***************************************************************************)
delete_file(c, objects, path, alive, ok, rm) ==
    LET r == StEnsureConnected(c, alive, ok)
    IN IF r.raised
       THEN [conn |-> r.conn, objects |-> objects, result |-> "raised"]
       ELSE IF rm = "removed"
       THEN [conn |-> r.conn, objects |-> objects \ {path}, result |-> "True"]
       ELSE IF rm = "S3Error"
       THEN [conn |-> r.conn, objects |-> objects, result |-> "False"]
       ELSE [conn |-> r.conn, objects |-> objects, result |-> "raised"]

\* clean_old_backups, lines 210-219: connect, list, compute the cutoff
clean_old_backups_list ==
    /\ rpc = "r_start"
    /\ \E alive1 \in BOOLEAN, ok1 \in BOOLEAN, alive2 \in BOOLEAN, ok2 \in BOOLEAN,
          answered \in BOOLEAN :
          LET r1 == StEnsureConnected(client, alive1, ok1)
              r2 == StEnsureConnected(r1.conn, alive2, ok2)
          IN IF ~r1.raised /\ ~r2.raised /\ answered
             THEN /\ client' = r2.conn
                  /\ files' = Listing(bucket, prefix)
                  /\ idx' = 1
                  /\ rpc' = "r_loop"
             ELSE /\ client' = IF r1.raised THEN r1.conn ELSE r2.conn
                  /\ rpc' = "r_raised"
                  /\ UNCHANGED <<files, idx>>
    /\ UNCHANGED <<days, prefix, listed, deleted_count, delete_calls, delete_results>>
    /\ UNCHANGED <<now, bucket>>
    /\ UNCHANGED notRetVars

\* clean_old_backups, lines 223-244: one entry of the loop
clean_old_backups_entry ==
    /\ rpc = "r_loop"
    /\ idx <= Len(files)
    /\ LET file_path   == files[idx]
           fd          == FileDate(file_path)
           cutoff_date == MinusDays(Instant(now), days)
       IN IF fd.err # "none"
          THEN /\ rpc' = IF Caught(fd.err) THEN "r_loop" ELSE "r_raised"
               /\ idx' = idx + 1
               /\ UNCHANGED <<client, bucket, deleted_count, delete_calls, delete_results>>
          ELSE IF ~ Expired(fd.file_date, cutoff_date)
          THEN /\ idx' = idx + 1
               /\ UNCHANGED <<rpc, client, bucket, deleted_count, delete_calls, delete_results>>
          ELSE \E alive \in BOOLEAN, ok \in BOOLEAN, rm \in RemoveOutcomes :
                  LET d == delete_file(client, bucket, file_path, alive, ok, rm)
                  IN /\ client' = d.conn
                     /\ bucket' = d.objects
                     /\ delete_calls' = Append(delete_calls, file_path)
                     /\ delete_results' = Append(delete_results, d.result)
                     /\ deleted_count' = IF d.result = "True" THEN deleted_count + 1
                                         ELSE deleted_count
                     /\ rpc' = IF d.result = "raised" THEN "r_raised" ELSE "r_loop"
                     /\ idx' = idx + 1
    /\ UNCHANGED <<days, prefix, listed, files>>
    /\ UNCHANGED now
    /\ UNCHANGED notRetVars

\* clean_old_backups, lines 246-247: return deleted_count
clean_old_backups_return ==
    /\ rpc = "r_loop"
    /\ idx > Len(files)
    /\ rpc' = "r_returned"
    /\ UNCHANGED <<days, prefix, listed, files, idx, deleted_count, delete_calls,
                   delete_results>>
    /\ UNCHANGED envVars
    /\ UNCHANGED notRetVars

RetInit ==
    /\ now \in RetClock
    /\ client \in {"none", "live"}
    /\ bucket \in {b \in SUBSET {ObjectNames[i] : i \in 1..Len(ObjectNames)} :
                       Cardinality(b) <= MaxObjects}
    /\ backup_dir = [exists |-> TRUE, files |-> {}]
    /\ JobIdle
    /\ rpc = "r_start"
    /\ days \in RetDays
    /\ prefix \in RetPrefixes
    /\ listed = bucket
    /\ files = <<>>
    /\ idx = 0
    /\ deleted_count = 0
    /\ delete_calls = <<>>
    /\ delete_results = <<>>
    /\ NamIdle
    /\ ClnIdle
    /\ OthersIdle

RetNext ==
    \/ clean_old_backups_list
    \/ clean_old_backups_entry
    \/ clean_old_backups_return

SpecRetention == RetInit /\ [][RetNext]_vars

(***************************************************************************)
(* Retention properties.                                                   *)
(***************************************************************************)
Cutoff == MinusDays(Instant(now), days)

Range(q) == {q[i] : i \in 1..Len(q)}

\* the listed entries whose name parses and whose date is strictly before the cutoff
ExpiredEntries ==
    {f \in Range(files) :
        /\ FileDate(f).err = "none"
        /\ Earlier(Instant(FileDate(f).file_date), Cutoff)}

\* the listed entries for which no date and time can be parsed
UnparseableEntries == {f \in Range(files) : FileDate(f).err # "none"}

Removed == listed \ bucket

AllDeletesSucceeded == \A k \in 1..Len(delete_results) : delete_results[k] = "True"

SweepEnded == rpc \in {"r_returned", "r_raised"} /\ idx > 0

StampOf(name) ==
    LET i == CHOOSE j \in 1..Len(Objects) : Objects[j].name = name IN Objects[i].stamp

FollowsConvention(name) ==
    \E j \in 1..Len(Objects) : Objects[j].name = name /\ Objects[j].conv

\* C2: what clean_old_backups removes is always a listed entry whose name
\* parses and whose timestamp is strictly earlier than now - days; when it
\* returns and every delete succeeded, it has removed exactly those entries
\* (an entry stamped exactly at the cutoff, or later, is kept) and returns
\* their number.
C2_RemovesExactlyTheExpired ==
    /\ Removed \subseteq ExpiredEntries
    /\ (rpc = "r_returned" /\ AllDeletesSucceeded) =>
          /\ Removed = ExpiredEntries
          /\ deleted_count = Cardinality(ExpiredEntries)

\* one entry 40 days old, one stamped exactly at the cutoff, one a day old:
\* the sweep returned 1
C2_Witness ==
    /\ rpc = "r_returned"
    /\ days = 30
    /\ now.us = 0
    /\ Range(files) = {ObjectNames[1], ObjectNames[4], ObjectNames[6]}
    /\ Removed = {ObjectNames[1]}
    /\ deleted_count = 1

\* C3: an entry whose name gives no date and time is never passed to delete
\* and stays in the bucket, the sweep raises only when a storage call raised
\* (never because of a name), and a sweep that returns has gone through every
\* entry, passed every expired one to delete and counted the deletes that
\* succeeded.
C3_UnparseableSkipped ==
    /\ \A f \in UnparseableEntries : f \in bucket /\ ~ Has(delete_calls, f)
    /\ (rpc = "r_raised" /\ idx > 0) =>
          /\ Len(delete_results) > 0
          /\ delete_results[Len(delete_results)] = "raised"
    /\ rpc = "r_returned" =>
          /\ idx = Len(files) + 1
          /\ ExpiredEntries = Range(delete_calls)
          /\ deleted_count = Count(delete_results, "True")

\* an entry naming 30 February (ValueError) and one without underscores
\* (IndexError) were listed around an expired entry, which was deleted
C3_Witness ==
    /\ rpc = "r_returned"
    /\ prefix = NoPath
    /\ Range(files) = {ObjectNames[3], ObjectNames[8], ObjectNames[10]}
    /\ FileDate(ObjectNames[3]).err = "ValueError"
    /\ FileDate(ObjectNames[10]).err = "IndexError"
    /\ Removed = {ObjectNames[8]}
    /\ deleted_count = 1

\* C4: a failed deletion of an expired entry never aborts the sweep: once a
\* delete has failed, the sweep still ends by returning, with every expired
\* entry passed to delete and a count equal to the deletes that succeeded.
C4_FailedDeleteNeverAborts ==
    (SweepEnded /\ ~ AllDeletesSucceeded) =>
        /\ rpc = "r_returned"
        /\ ExpiredEntries = Range(delete_calls)
        /\ deleted_count = Count(delete_results, "True")

\* C6: on a sweep that returns with every delete succeeded, a listed name
\* that follows <prefix>_<YYYYMMDD>_<HHMMSS>[.<ext>] is removed exactly when
\* the timestamp in the name is strictly earlier than the cutoff.
C6_ConventionNamesAged ==
    (rpc = "r_returned" /\ AllDeletesSucceeded) =>
        \A f \in Range(files) :
            FollowsConvention(f) =>
                (f \in Removed <=> Earlier(Instant(StampOf(f)), Cutoff))

(***************************************************************************)
(* Default names.  create_backup stamps the remote name with the clock,    *)
(* upload_file stores the object under that name, list_files returns it,   *)
(* and clean_old_backups reads the date and time back from it.             *)
(***************************************************************************)
NameYears == {1999, 2024}

NameMonths == {1, 2, 9, 10, 12}

NameDays == {1, 9, 10, 28, 29, 31}

NameHours == {0, 9, 10, 23}

NameMinutes == {0, 5, 59}

NameSeconds == {0, 9, 59}

NameMicroseconds == {0, 999999}

\* the instants at which a backup is created
NameClock ==
    {t \in [Y : NameYears, M : NameMonths, D : NameDays, h : NameHours,
            m : NameMinutes, s : NameSeconds, us : NameMicroseconds] :
        t.D <= DaysInMonth(t.Y, t.M)}

\* create_backup, lines 69-72: the default remote name
default_name_generate ==
    /\ npc = "n_start"
    /\ generated' = DefaultRemotePath(now)
    /\ npc' = "n_named"
    /\ UNCHANGED <<parsed_date, now, bucket>>
    /\ UNCHANGED notNamVars

\* create_backup, lines 75-78, and MinioManager.upload_file: the object is
\* stored under the name it was given
default_name_upload ==
    /\ npc = "n_named"
    /\ bucket' = bucket \cup {generated}
    /\ npc' = "n_stored"
    /\ UNCHANGED <<generated, parsed_date, now>>
    /\ UNCHANGED notNamVars

\* clean_old_backups, lines 216 and 225-233: the name is listed and parsed
default_name_parse ==
    /\ npc = "n_stored"
    /\ \E file_path \in bucket :
          parsed_date' = FileDate(file_path)
    /\ npc' = "n_parsed"
    /\ UNCHANGED <<generated, now, bucket>>
    /\ UNCHANGED notNamVars

NamInit ==
    /\ now \in NameClock
    /\ client = "live"
    /\ bucket = {}
    /\ backup_dir = [exists |-> TRUE, files |-> {}]
    /\ JobIdle
    /\ RetIdle
    /\ npc = "n_start"
    /\ generated = NoPath
    /\ parsed_date = [err |-> "none", file_date |-> NoDate]
    /\ ClnIdle
    /\ OthersIdle

NamNext ==
    \/ default_name_generate
    \/ default_name_upload
    \/ default_name_parse

SpecNaming == NamInit /\ [][NamNext]_vars

\* C5: the name create_backup generates by default is parsed by
\* clean_old_backups without error, to the year, month, day, hour, minute and
\* second of the clock that stamped it (and no fraction of a second).
C5_DefaultNameRoundTrips ==
    npc = "n_parsed" =>
        /\ parsed_date.err = "none"
        /\ parsed_date.file_date.Y = now.Y
        /\ parsed_date.file_date.M = now.M
        /\ parsed_date.file_date.D = now.D
        /\ parsed_date.file_date.h = now.h
        /\ parsed_date.file_date.m = now.m
        /\ parsed_date.file_date.s = now.s
        /\ parsed_date.file_date.us = 0

\* a name stamped on a day and at a time whose fields need zero padding,
\* and whose digits read another way without it, was parsed
C5_Witness ==
    /\ npc = "n_parsed"
    /\ now.M = 1 /\ now.D = 28 /\ now.h = 9 /\ now.m = 5 /\ now.s = 9
    /\ now.us = 999999
    /\ parsed_date.err = "none"
    /\ parsed_date.file_date.M = 1

(***************************************************************************)
(* cleanup() on its own, from every state of the working directory.        *)
(***************************************************************************)
\* what the working directory may hold
WorkFiles ==
    {DumpFile(k) : k \in DbKinds}
        \cup {StaleFile, "dump", "restored.sql", "restored.tar.gz", "notes.txt"}

\* the most calls of cleanup()
MaxCleanups == 2

\* DatabaseBackup.cleanup, lines 253-262
cleanup_call ==
    /\ cleanups < MaxCleanups
    /\ backup_dir' = cleanup(backup_dir)
    /\ cleanups' = cleanups + 1
    /\ UNCHANGED notClnVars

ClnInit ==
    /\ now \in JobClock
    /\ client = "none"
    /\ bucket = {}
    /\ backup_dir \in [exists : {TRUE}, files : SUBSET WorkFiles]
                          \cup {[exists |-> FALSE, files |-> {}]}
    /\ JobIdle
    /\ RetIdle
    /\ NamIdle
    /\ cleanups = 0
    /\ OthersIdle

ClnNext == cleanup_call

SpecCleanup == ClnInit /\ [][ClnNext]_vars

\* C10: after cleanup() the working directory exists and is empty, whatever
\* it was before (populated, empty or absent), and a further cleanup()
\* leaves that state.
C10_CleanupResets ==
    cleanups >= 1 =>
        /\ backup_dir = [exists |-> TRUE, files |-> {}]
        /\ cleanup(backup_dir) = backup_dir

(***************************************************************************)
(* restore_backup.  pc runs "rb_st" -> "rb_download" -> "rb_remove" ->     *)
(* "rb_returned", or -> "rb_raised" from a step that raises.  It shares    *)
(* pc, remove_local, connection and trace with the backup job, whose       *)
(* coordinator it belongs to.                                              *)
(***************************************************************************)
\* what restore_backup leaves alone besides the variables of the coordinator
notRstVars == <<retVars, namVars, clnVars, bkVars, delVars, dmpVars, lateVars>>

\* the remote paths restore_backup is asked for: two stored objects and a
\* name nothing is stored under
BackupPaths == {ObjectNames[1], ObjectNames[8], ObjectNames[10]}

StoredObjects == {ObjectNames[1], ObjectNames[8]}

CustomLocalPath == <<"restore", ".", "sql">>

\* how fget_object can end
FetchOutcomes == {"fetched", "S3Error", "error"}

\* the calls of a database backend
DbCalls == {"db.alive", "db.not_alive", "db.connect", "db.connect.returned",
            "db.connect.raised", "db.restore", "dump", "dump.returned", "dump.raised"}

\* restore_backup, lines 108-110
restore_backup_connect_storage ==
    /\ pc = "rb_st"
    /\ \E alive \in BOOLEAN, ok \in BOOLEAN :
          LET r == StEnsureConnected(client, alive, ok)
          IN /\ client' = r.conn
             /\ trace' = trace \o r.calls
             /\ pc' = IF r.raised THEN "rb_raised" ELSE "rb_download"
    /\ UNCHANGED <<viaTask, remove_local, remote_path, db_kind, connection,
                   local_backup_path, storage_path, returned>>
    /\ UNCHANGED <<now, bucket, backup_dir>>
    /\ UNCHANGED rstVars
    /\ UNCHANGED notRstVars

\* a restore_backup that goes on to load the download into the database
restore_backup_download_and_load ==
    /\ pc = "rb_download"
    /\ downloaded_path' = backup_path
    /\ local_copy' = TRUE
    /\ connection' = "live"
    /\ trace' = trace \o <<"download", "download.returned", "db.connect", "db.restore">>
    /\ pc' = "rb_remove"
    /\ UNCHANGED <<viaTask, remove_local, remote_path, db_kind,
                   local_backup_path, storage_path, returned>>
    /\ UNCHANGED <<now, client, bucket, backup_dir>>
    /\ UNCHANGED <<backup_path, local_path, restored>>
    /\ UNCHANGED notRstVars

\* restore_backup, lines 112-120, with MinioManager.download_file, lines
\* 226-255: the local path defaults to backup_dir/basename(backup_path),
\* download_file connects when is_connected says no, creates the directory
\* of the local path and fetches the object
restore_backup_download ==
    /\ pc = "rb_download"
    /\ \E alive \in BOOLEAN, ok \in BOOLEAN, fetch \in FetchOutcomes :
          LET r       == StEnsureConnected(client, alive, ok)
              inDir   == local_path = NoPath
              target  == IF inDir THEN Basename(backup_path) ELSE local_path
              made    == IF ~r.raised /\ inDir
                         THEN [exists |-> TRUE, files |-> backup_dir.files]
                         ELSE backup_dir
              fetched == ~r.raised /\ fetch = "fetched" /\ backup_path \in bucket
          IN /\ client' = r.conn
             /\ backup_dir' = IF fetched /\ inDir
                              THEN [exists |-> TRUE, files |-> made.files \cup {target}]
                              ELSE made
             /\ downloaded_path' = IF fetched THEN target ELSE downloaded_path
             /\ local_copy' = fetched
             /\ trace' = trace \o <<"download">> \o r.calls
                               \o <<IF fetched THEN "download.returned" ELSE "download.raised">>
             /\ pc' = IF fetched THEN "rb_remove" ELSE "rb_raised"
    /\ UNCHANGED <<viaTask, remove_local, remote_path, db_kind, connection,
                   local_backup_path, storage_path, returned>>
    /\ UNCHANGED <<now, bucket>>
    /\ UNCHANGED <<backup_path, local_path, restored>>
    /\ UNCHANGED notRstVars

\* a restore_backup that returns True and keeps the local file whatever was asked
restore_backup_keep_local ==
    /\ pc = "rb_remove"
    /\ restored' = "True"
    /\ pc' = "rb_returned"
    /\ UNCHANGED <<local_copy, backup_dir, trace>>
    /\ UNCHANGED <<viaTask, remove_local, remote_path, db_kind, connection,
                   local_backup_path, storage_path, returned>>
    /\ UNCHANGED <<now, client, bucket>>
    /\ UNCHANGED <<backup_path, local_path, downloaded_path>>
    /\ UNCHANGED notRstVars

\* restore_backup, lines 126-131: remove the local file when asked, return True
restore_backup_remove_local ==
    /\ pc = "rb_remove"
    /\ IF remove_local /\ local_copy
       THEN /\ local_copy' = FALSE
            /\ backup_dir' = [backup_dir EXCEPT !.files = @ \ {downloaded_path}]
            /\ trace' = Append(trace, "remove")
       ELSE UNCHANGED <<local_copy, backup_dir, trace>>
    /\ restored' = "True"
    /\ pc' = "rb_returned"
    /\ UNCHANGED <<viaTask, remove_local, remote_path, db_kind, connection,
                   local_backup_path, storage_path, returned>>
    /\ UNCHANGED <<now, client, bucket>>
    /\ UNCHANGED <<backup_path, local_path, downloaded_path>>
    /\ UNCHANGED notRstVars

RstInit ==
    /\ now \in JobClock
    /\ client \in ConnStates
    /\ bucket \in SUBSET StoredObjects
    /\ backup_dir \in [exists : BOOLEAN, files : {{}}]
    /\ pc = "rb_st"
    /\ viaTask = FALSE
    /\ remove_local \in BOOLEAN
    /\ remote_path = NoPath
    /\ db_kind \in DbKinds
    /\ connection \in ConnStates
    /\ local_backup_path = NoFile
    /\ storage_path = NoPath
    /\ returned = NoPath
    /\ trace = <<>>
    /\ RetIdle
    /\ NamIdle
    /\ ClnIdle
    /\ backup_path \in BackupPaths
    /\ local_path \in {NoPath, CustomLocalPath}
    /\ downloaded_path = NoPath
    /\ local_copy = FALSE
    /\ restored = "none"
    /\ BkIdle
    /\ DelIdle
    /\ DmpIdle
    /\ LateIdle

RstNext ==
    \/ restore_backup_connect_storage
    \/ restore_backup_download
    \/ restore_backup_remove_local

SpecRestore == RstInit /\ [][RstNext]_vars

RestoreEnded == pc \in {"rb_returned", "rb_raised"}

notBkVars == <<envVars, jobVars, retVars, namVars, clnVars, rstVars, delVars, dmpVars,
              lateVars>>

(***************************************************************************)
(* The connection of one backend manager: connect, is_connected and        *)
(* disconnect of MySQLManager, PostgreSQLManager, MongoDBManager,          *)
(* MinioManager and GoogleDriveManager, against a server that goes down    *)
(* and comes back.                                                         *)
(***************************************************************************)
Backends == {"mysql", "postgresql", "mongodb", "minio", "gdrive"}

\* the managers that have disconnect()
DatabaseBackends == {"mysql", "postgresql", "mongodb"}

\* the handle is one session with the server, lost when the server goes down
Sessionful == {"mysql", "postgresql"}

\* connect() assigns the handle before it probes the server
AssignsBeforeProbe == {"mongodb", "minio", "gdrive"}

\* the most connections or client objects made
MaxOpened == 3

\* whether the probe of is_connected gets an answer
ProbeAnswers(kind, h, up, alive) ==
    up /\ (kind \in Sessionful => h \in alive)

\* an is_connected that lets the error of its probe through
is_connected_propagating(kind, h, up, alive) ==
    IF h = 0 THEN [outcome |-> "False", probe |-> "none"]
    ELSE IF ProbeAnswers(kind, h, up, alive)
    THEN [outcome |-> "True", probe |-> "answered"]
    ELSE [outcome |-> "raised", probe |-> "failed"]

\* is_connected: False without a handle; else the probe (ping, SELECT 1,
\* bucket_exists, about().get()), and False when the probe fails
is_connected(kind, h, up, alive) ==
    IF h = 0 THEN [outcome |-> "False", probe |-> "none"]
    ELSE IF ProbeAnswers(kind, h, up, alive)
    THEN [outcome |-> "True", probe |-> "answered"]
    ELSE [outcome |-> "False", probe |-> "failed"]

\* connect(): opens a connection (builds a client) and stores it in the
\* handle, whatever the handle held; raises when the server does not answer
backend_connect ==
    /\ backend \in Backends
    /\ opened < MaxOpened
    /\ LET made   == opened + 1
           before == is_connected(backend, handle, server_up, live).outcome = "True"
           stored == server_up \/ backend \in AssignsBeforeProbe
       IN /\ opened' = IF stored THEN made ELSE opened
          /\ handle' = IF stored THEN made ELSE handle
          /\ live' = IF server_up /\ backend \in Sessionful THEN live \cup {made} ELSE live
          /\ abandoned' = IF stored /\ handle # 0 THEN abandoned \cup {handle}
                          ELSE abandoned
          /\ last' = [op |-> "connect",
                      outcome |-> IF server_up THEN "returned" ELSE "raised",
                      probe |-> "none", connected_before |-> before,
                      connected_after |->
                          is_connected(backend, handle', server_up, live').outcome = "True",
                      handle_before |-> handle, opened_before |-> opened]
    /\ UNCHANGED <<backend, server_up>>
    /\ UNCHANGED notBkVars

\* is_connected()
backend_is_connected ==
    /\ backend \in Backends
    /\ LET r == is_connected(backend, handle, server_up, live)
       IN last' = [op |-> "is_connected", outcome |-> r.outcome, probe |-> r.probe,
                   connected_before |-> r.outcome = "True",
                   connected_after |-> r.outcome = "True",
                   handle_before |-> handle, opened_before |-> opened]
    /\ UNCHANGED <<backend, handle, opened, live, abandoned, server_up>>
    /\ UNCHANGED notBkVars

\* disconnect(): MySQL closes a connection that still answers, PostgreSQL
\* and MongoDB close whatever the handle holds
backend_disconnect ==
    /\ backend \in DatabaseBackends
    /\ LET closes == IF backend = "mysql"
                     THEN is_connected(backend, handle, server_up, live).outcome = "True"
                     ELSE handle # 0
       IN /\ handle' = IF closes THEN 0 ELSE handle
          /\ live' = IF closes THEN live \ {handle} ELSE live
          /\ last' = [op |-> "disconnect", outcome |-> "returned", probe |-> "none",
                      connected_before |->
                          is_connected(backend, handle, server_up, live).outcome = "True",
                      connected_after |-> FALSE,
                      handle_before |-> handle, opened_before |-> opened]
    /\ UNCHANGED <<backend, opened, abandoned, server_up>>
    /\ UNCHANGED notBkVars

\* the server goes down, which ends its sessions, or comes back
server_change ==
    /\ backend \in Backends
    /\ server_up' = ~ server_up
    /\ live' = IF server_up THEN {} ELSE live
    /\ UNCHANGED <<backend, handle, opened, abandoned, last>>
    /\ UNCHANGED notBkVars

BkInit ==
    /\ now \in JobClock
    /\ client = "none"
    /\ bucket = {}
    /\ backup_dir = [exists |-> TRUE, files |-> {}]
    /\ JobIdle
    /\ RetIdle
    /\ NamIdle
    /\ ClnIdle
    /\ RstIdle
    /\ backend \in Backends
    /\ handle = 0
    /\ opened = 0
    /\ live = {}
    /\ abandoned = {}
    /\ server_up \in BOOLEAN
    /\ last = NoCall
    /\ DelIdle
    /\ DmpIdle
    /\ LateIdle

BkNext ==
    \/ backend_connect
    \/ backend_is_connected
    \/ backend_disconnect
    \/ server_change

SpecBackend == BkInit /\ [][BkNext]_vars

\* C12: connect() on a backend whose is_connected() is true returns without
\* error and is a no-op: the handle is the one held before, no further
\* connection was opened, the one held before is not abandoned, and
\* is_connected() is still true.
C12_ConnectWhenConnectedIsNoOp ==
    (last.op = "connect" /\ last.connected_before) =>
        /\ last.outcome = "returned"
        /\ handle = last.handle_before
        /\ opened = last.opened_before
        /\ last.handle_before \notin abandoned
        /\ last.connected_after

\* C13: is_connected() of every backend variant ends by returning True or
\* False, never by raising; when its probe fails it returns False, and it
\* returns True only when the probe was answered.
C13_IsConnectedNeverRaises ==
    last.op = "is_connected" =>
        /\ last.outcome \in {"True", "False"}
        /\ last.probe = "failed" => last.outcome = "False"
        /\ last.outcome = "True" => last.probe = "answered"

\* is_connected() was called on a manager whose connection had been lost,
\* and answered False
C13_Witness ==
    /\ last.op = "is_connected"
    /\ handle # 0
    /\ last.probe = "failed"
    /\ last.outcome = "False"

\* what delete_file leaves alone
notDelVars == <<now, backup_dir, jobVars, retVars, namVars, clnVars, rstVars, bkVars, dmpVars,
               lateVars>>

(***************************************************************************)
(* delete_file of the two storage variants, called on its own.             *)
(***************************************************************************)
Storages == {"minio", "gdrive"}

\* how files().list of _find_file_by_name can end
FindOutcomes == {"answered", "HttpError", "error"}

\* how files().delete can end
DriveDeleteOutcomes == {"removed", "HttpError", "error"}

(***************************************************************************)
(* GoogleDriveManager.delete_file(path) for a path that is a file name:    *)
(* connects when is_connected says no, which raises when that fails;       *)
(* _find_file_by_name gives None when no file has the name or the query    *)
(* ends in HttpError, and delete_file then returns False; HttpError from   *)
(* files().delete gives False; any other exception leaves delete_file.     *)
(***************************************************************************)
gdrive_delete_file(c, objects, path, alive, ok, find, rm) ==
    LET r == StEnsureConnected(c, alive, ok)
    IN IF r.raised
       THEN [conn |-> r.conn, objects |-> objects, result |-> "raised"]
       ELSE IF find = "error"
       THEN [conn |-> r.conn, objects |-> objects, result |-> "raised"]
       ELSE IF find = "HttpError" \/ path \notin objects
       THEN [conn |-> r.conn, objects |-> objects, result |-> "False"]
       ELSE IF rm = "removed"
       THEN [conn |-> r.conn, objects |-> objects \ {path}, result |-> "True"]
       ELSE IF rm = "HttpError"
       THEN [conn |-> r.conn, objects |-> objects, result |-> "False"]
       ELSE [conn |-> r.conn, objects |-> objects, result |-> "raised"]

\* storage_manager.delete_file(remote_path)
storage_delete_file ==
    /\ del_outcome = "none"
    /\ \E alive \in BOOLEAN, ok \in BOOLEAN, rm \in RemoveOutcomes,
          find \in FindOutcomes, drm \in DriveDeleteOutcomes :
          LET d == IF storage = "minio"
                   THEN delete_file(client, bucket, del_path, alive, ok, rm)
                   ELSE gdrive_delete_file(client, bucket, del_path, alive, ok, find, drm)
          IN /\ client' = d.conn
             /\ bucket' = d.objects
             /\ del_outcome' = d.result
    /\ UNCHANGED <<storage, del_path, del_before>>
    /\ UNCHANGED notDelVars

DelInit ==
    /\ now \in JobClock
    /\ client \in ConnStates
    /\ bucket \in SUBSET StoredObjects
    /\ backup_dir = [exists |-> TRUE, files |-> {}]
    /\ JobIdle
    /\ RetIdle
    /\ NamIdle
    /\ ClnIdle
    /\ RstIdle
    /\ BkIdle
    /\ storage \in Storages
    /\ del_path \in BackupPaths
    /\ del_before = bucket
    /\ del_outcome = "none"
    /\ DmpIdle
    /\ LateIdle

DelNext == storage_delete_file

SpecDelete == DelInit /\ [][DelNext]_vars

\* C14: delete_file never raises; it returns False when the object is
\* missing, on a backend error, and when reconnecting fails; it returns True
\* only when the object was there and has been removed.
C14_DeleteNeverRaises ==
    del_outcome # "none" =>
        /\ del_outcome \in {"True", "False"}
        /\ del_path \notin del_before => del_outcome = "False"
        /\ del_outcome = "True" => del_path \in del_before /\ del_path \notin bucket
        /\ del_outcome = "False" => bucket = del_before

(***************************************************************************)
(* The commands of dump and restore.  A command is a sequence of           *)
(* arguments, an argument a sequence of pieces: f"--host={self.host}" is   *)
(* <<"--host=", Host>>.  An extra-options map is the sequence of its       *)
(* <<key, value>> entries in insertion order; the values True, False and   *)
(* None are written "True", "False" and "None", any other value is a       *)
(* scalar written as str() gives it.                                       *)
(***************************************************************************)
Host == "H"

Port == "P"

User == "U"

Password == "PW"

Database == "shop"

AuthDatabase == "admin"

OptionKeys == {"routines", "jobs", "comment"}

OptionValues == {"True", "False", "None", "4", Password}

\* the most entries of an extra-options map
MaxOptions == 2

DistinctKeys(opts) ==
    \A i \in 1..Len(opts) : \A j \in 1..Len(opts) : i # j => opts[i][1] # opts[j][1]

OptionMaps ==
    {opts \in UNION {[1..n -> OptionKeys \X OptionValues] : n \in 0..MaxOptions} :
        DistinctKeys(opts)}

\* the loop over extra_options.items() of MySQLManager and PostgreSQLManager
RECURSIVE ExtraArgs(_)
ExtraArgs(opts) ==
    IF Len(opts) = 0 THEN <<>>
    ELSE LET key   == opts[1][1]
             value == opts[1][2]
             here  == IF value = "True" THEN << <<"--", key>> >>
                      ELSE IF value # "False" /\ value # "None"
                      THEN << <<"--", key, "=", value>> >>
                      ELSE <<>>
         IN here \o ExtraArgs(Tail(opts))

\* the loop over extra_options.items() of MongoDBManager: cmd.extend([f"--{key}", str(value)])
RECURSIVE MongoExtraArgs(_)
MongoExtraArgs(opts) ==
    IF Len(opts) = 0 THEN <<>>
    ELSE LET key   == opts[1][1]
             value == opts[1][2]
             here  == IF value = "True" THEN << <<"--", key>> >>
                      ELSE IF value # "False" /\ value # "None"
                      THEN << <<"--", key>>, <<value>> >>
                      ELSE <<>>
         IN here \o MongoExtraArgs(Tail(opts))

ExtraArgsOf(kind, opts) ==
    IF kind = "mongodb" THEN MongoExtraArgs(opts) ELSE ExtraArgs(opts)

\* the default of the parameter all_databases of dump
DefaultAllDatabases(kind) == kind = "postgresql"

\* all_databases as dump sees it: the argument, or the default when omitted
EffectiveAllDatabases(kind, arg) ==
    IF arg = "omitted" THEN DefaultAllDatabases(kind) ELSE arg = "True"

\* os.path.splitext(filename)[0]
Splitext0(name) ==
    IF \E i \in 2..Len(name) : name[i] = "."
    THEN LET k == CHOOSE i \in 2..Len(name) :
                      name[i] = "." /\ \A j \in (i + 1)..Len(name) : name[j] # "."
         IN SubSeq(name, 1, k - 1)
    ELSE name

\* a dump that names its file after the database whatever all_databases says
DumpFilenameByDatabase(kind, filename, all_db, t) ==
    IF filename # NoPath
    THEN (IF kind = "mongodb" THEN Splitext0(filename) ELSE filename)
    ELSE <<Database, "_">> \o Strftime(t)
             \o (IF kind = "mongodb" THEN <<>> ELSE <<".", "sql">>)

\* the file name of dump: the filename argument (MongoDB drops its
\* extension), else all_databases_<timestamp> or <database>_<timestamp>,
\* with .sql for MySQL and PostgreSQL
DumpFilename(kind, filename, all_db, t) ==
    IF filename # NoPath
    THEN (IF kind = "mongodb" THEN Splitext0(filename) ELSE filename)
    ELSE (IF all_db THEN <<"all_databases", "_">> ELSE <<Database, "_">>)
             \o Strftime(t)
             \o (IF kind = "mongodb" THEN <<>> ELSE <<".", "sql">>)

\* os.path.join(output_dir, filename)
OutputPath(filename) == <<"backup_dir", "/">> \o filename

\* MySQLManager.dump, lines 168-199
MySQLDumpCmd(lock, opts, all_db) ==
    << <<"mysqldump">>, <<"--host=", Host>>, <<"--port=", Port>>, <<"--user=", User>>,
       <<"--password=", Password>>, <<"--single-transaction">>, <<"--protocol=TCP">> >>
    \o << IF lock THEN <<"--lock-tables">> ELSE <<"--skip-lock-tables">> >>
    \o ExtraArgs(opts)
    \o << IF all_db THEN <<"--all-databases">> ELSE <<Database>> >>

\* a pg_dump that is given the password as mysqldump is
PgDumpCmdWithPassword(opts, all_db) ==
    << <<"pg_dump">>, <<"--host=", Host>>, <<"--port=", Port>>, <<"--username=", User>>,
       <<"--password=", Password>>, <<"--format=plain">>, <<"--clean">>,
       <<"--if-exists">>, <<"--no-owner">>, <<Database>> >>
    \o ExtraArgs(opts)

\* PostgreSQLManager.dump, lines 397-431
PgDumpCmd(opts, all_db) ==
    (IF all_db
     THEN << <<"pg_dumpall">>, <<"--host=", Host>>, <<"--port=", Port>>,
             <<"--username=", User>>, <<"--clean">>, <<"--if-exists">>, <<"--no-owner">> >>
     ELSE << <<"pg_dump">>, <<"--host=", Host>>, <<"--port=", Port>>,
             <<"--username=", User>>, <<"--format=plain">>, <<"--clean">>,
             <<"--if-exists">>, <<"--no-owner">>, <<Database>> >>)
    \o ExtraArgs(opts)

\* MongoDBManager.dump, lines 656-678
MongoDumpCmd(output_path, opts, all_db, auth) ==
    << <<"mongodump">>, <<"--host">>, <<Host, ":", Port>>, <<"--out">>, output_path >>
    \o (IF auth
        THEN << <<"--username">>, <<User>>, <<"--password">>, <<Password>>,
                <<"--authenticationDatabase">>, <<AuthDatabase>> >>
        ELSE <<>>)
    \o (IF ~all_db THEN << <<"--db">>, <<Database>> >> ELSE <<>>)
    \o MongoExtraArgs(opts)

DumpCmd(kind, lock, filename, opts, all_db, auth) ==
    IF kind = "mysql" THEN MySQLDumpCmd(lock, opts, all_db)
    ELSE IF kind = "postgresql" THEN PgDumpCmd(opts, all_db)
    ELSE MongoDumpCmd(OutputPath(filename), opts, all_db, auth)

\* MySQLManager.restore, lines 253-271
MySQLRestoreCmd(opts) ==
    << <<"mysql">>, <<"--host=", Host>>, <<"--port=", Port>>, <<"--user=", User>>,
       <<"--password=", Password>>, <<"--protocol=TCP">> >>
    \o ExtraArgs(opts)
    \o << <<Database>> >>

\* PostgreSQLManager.restore, lines 490-508
PgRestoreCmd(opts) ==
    << <<"psql">>, <<"--host=", Host>>, <<"--port=", Port>>, <<"--username=", User>>,
       <<"--set=ON_ERROR_STOP=on">>, <<"--no-password">> >>
    \o ExtraArgs(opts)
    \o << <<Database>> >>

\* MongoDBManager.restore, lines 764-788; has_db_dir says whether the backup
\* holds a directory named after the database
MongoRestoreCmd(restore_path, opts, auth, has_db_dir) ==
    << <<"mongorestore">>, <<"--host">>, <<Host, ":", Port>> >>
    \o (IF auth
        THEN << <<"--username">>, <<User>>, <<"--password">>, <<Password>>,
                <<"--authenticationDatabase">>, <<AuthDatabase>> >>
        ELSE <<>>)
    \o MongoExtraArgs(opts)
    \o (IF has_db_dir
        THEN << <<"--db">>, <<Database>>, restore_path \o <<"/", Database>> >>
        ELSE << restore_path >>)

RestoreCmd(kind, restore_path, opts, auth, has_db_dir) ==
    IF kind = "mysql" THEN MySQLRestoreCmd(opts)
    ELSE IF kind = "postgresql" THEN PgRestoreCmd(opts)
    ELSE MongoRestoreCmd(restore_path, opts, auth, has_db_dir)

\* the environment given to the child: PostgreSQL adds PGPASSWORD to a copy
\* of os.environ, the others pass none and the child inherits os.environ
ChildEnv(kind) ==
    IF kind = "postgresql" THEN {<<"PGPASSWORD", Password>>} ELSE {}

\* what a dump that ended with outcome leaves in output_dir: the output file
\* of mysqldump and pg_dump, or the archive of MongoDB, which stays when
\* archiving or the removal of the dumped directory fails
DumpArtifacts(kind, outcome) ==
    IF outcome = "ok" THEN (IF kind = "mongodb" THEN {"tar"} ELSE {"file"})
    ELSE IF outcome = "archive_failed" THEN {"tar"}
    ELSE {}

\* what dump and restore leave alone
notDmpVars == <<envVars, jobVars, retVars, namVars, clnVars, rstVars, bkVars, delVars,
               lateVars>>

CustomFilename == <<"custom", ".", "sql">>

\* the directory mongorestore reads
RestorePath == <<"restore_dir">>

\* the calls of dump: lock_tables only matters to MySQL, the credentials of
\* MongoDB may be absent
DumpCalls ==
    {c \in [op : {"dump"}, kind : DbKinds, lock_tables : BOOLEAN,
            filename : {NoPath, CustomFilename}, extra_options : OptionMaps,
            all_databases : {"omitted", "True", "False"}, auth : BOOLEAN,
            file_exists : {FALSE}, has_db_dir : {FALSE}] :
        /\ c.kind # "mysql" => ~c.lock_tables
        /\ c.kind # "mongodb" => c.auth}

\* the calls of restore
RestoreCalls ==
    {c \in [op : {"restore"}, kind : DbKinds, lock_tables : {FALSE},
            filename : {NoPath}, extra_options : OptionMaps,
            all_databases : {"omitted"}, auth : BOOLEAN,
            file_exists : BOOLEAN, has_db_dir : BOOLEAN] :
        /\ c.kind # "mongodb" => c.auth /\ ~c.has_db_dir}

\* dump(output_dir, lock_tables, filename, extra_options, all_databases)
db_dump ==
    /\ call.op = "dump"
    /\ db_outcome = "none"
    /\ \E outcome \in DumpOutcomes(call.kind) :
          LET all_db == EffectiveAllDatabases(call.kind, call.all_databases)
              name   == DumpFilename(call.kind, call.filename, all_db, now)
          IN /\ output_name' = name
             /\ cmd' = DumpCmd(call.kind, call.lock_tables, name, call.extra_options,
                               all_db, call.auth)
             /\ extra_args' = ExtraArgsOf(call.kind, call.extra_options)
             /\ child_env' = ChildEnv(call.kind)
             /\ artifacts' = DumpArtifacts(call.kind, outcome)
             /\ db_outcome' = IF outcome = "ok" THEN "returned" ELSE "raised"
    /\ UNCHANGED call
    /\ UNCHANGED notDmpVars

\* restore(sql_file, extra_options): FileNotFoundError when the file is not
\* there, else the command is built and run
db_restore ==
    /\ call.op = "restore"
    /\ db_outcome = "none"
    /\ IF ~ call.file_exists
       THEN /\ db_outcome' = "raised"
            /\ UNCHANGED <<cmd, extra_args, child_env>>
       ELSE \E ran \in BOOLEAN :
               /\ cmd' = RestoreCmd(call.kind, RestorePath, call.extra_options,
                                    call.auth, call.has_db_dir)
               /\ extra_args' = ExtraArgsOf(call.kind, call.extra_options)
               /\ child_env' = ChildEnv(call.kind)
               /\ db_outcome' = IF ran THEN "returned" ELSE "raised"
    /\ UNCHANGED <<call, output_name, artifacts>>
    /\ UNCHANGED notDmpVars

DmpInit ==
    /\ now \in JobClock
    /\ client = "none"
    /\ bucket = {}
    /\ backup_dir = [exists |-> TRUE, files |-> {}]
    /\ JobIdle
    /\ RetIdle
    /\ NamIdle
    /\ ClnIdle
    /\ RstIdle
    /\ BkIdle
    /\ DelIdle
    /\ LateIdle
    /\ call \in DumpCalls \cup RestoreCalls
    /\ cmd = <<>>
    /\ extra_args = <<>>
    /\ child_env = {}
    /\ output_name = NoPath
    /\ artifacts = {}
    /\ db_outcome = "none"

DmpNext ==
    \/ db_dump
    \/ db_restore

SpecDump == DmpInit /\ [][DmpNext]_vars

(***************************************************************************)
(* Properties of dump and restore.                                         *)
(***************************************************************************)
DumpBuilt == call.op = "dump" /\ db_outcome # "none"

CmdBuilt == db_outcome # "none" /\ cmd # <<>>

\* the command names the configured database: as a positional argument, or
\* for mongodump after --db
SelectsDatabase(c) ==
    \E i \in 1..Len(c) :
        /\ c[i] = <<Database>>
        /\ call.kind = "mongodb" => (i > 1 /\ c[i - 1] = <<"--db">>)

\* the command has no argument that selects a database
SelectsNoDatabase(c) ==
    \A i \in 1..Len(c) : c[i] # <<Database>> /\ c[i] # <<"--db">>

\* the translation of an extra-options map as documented: True gives --key,
\* False and None give nothing, a scalar gives the one argument --key=value
RECURSIVE FlagsOf(_)
FlagsOf(opts) ==
    IF Len(opts) = 0 THEN <<>>
    ELSE (IF opts[1][2] = "True" THEN << <<"--", opts[1][1]>> >>
          ELSE IF opts[1][2] \in {"False", "None"} THEN <<>>
          ELSE << <<"--", opts[1][1], "=", opts[1][2]>> >>)
         \o FlagsOf(Tail(opts))

\* the documented order of the arguments of dump, around the arguments the
\* call made of its extra options
TemplateCmd(kind, lock, all_db, auth, extras, out) ==
    IF kind = "mysql"
    THEN << <<"mysqldump">>, <<"--host=", Host>>, <<"--port=", Port>>, <<"--user=", User>>,
            <<"--password=", Password>>, <<"--single-transaction">>, <<"--protocol=TCP">>,
            IF lock THEN <<"--lock-tables">> ELSE <<"--skip-lock-tables">> >>
         \o (IF all_db THEN << <<"--all-databases">> >> ELSE <<>>)
         \o extras
         \o (IF all_db THEN <<>> ELSE << <<Database>> >>)
    ELSE IF kind = "postgresql"
    THEN << <<"pg_dump">>, <<"--host=", Host>>, <<"--port=", Port>>,
            <<"--username=", User>>, <<"--format=plain">>, <<"--clean">>,
            <<"--if-exists">>, <<"--no-owner">> >>
         \o extras
         \o << <<Database>> >>
    ELSE << <<"mongodump">>, <<"--host">>, <<Host, ":", Port>> >>
         \o (IF auth
             THEN << <<"--username">>, <<User>>, <<"--password">>, <<Password>>,
                     <<"--authenticationDatabase">>, <<AuthDatabase>> >>
             ELSE <<>>)
         \o (IF all_db THEN <<>> ELSE << <<"--db">>, <<Database>> >>)
         \o extras
         \o << <<"--out">>, out >>

\* C15: when dump raises, nothing of that dump is left in the output
\* directory: no output file, no output directory, no archive.
C15_FailedDumpLeavesNothing ==
    (call.op = "dump" /\ db_outcome = "raised") => artifacts = {}

\* C16: a dump called without all_databases exports the one configured
\* database: the single-database tool runs, the command names the database
\* and not all databases, and a generated file name starts with the
\* database name.
C16_DefaultIsSingleDatabase ==
    (DumpBuilt /\ call.all_databases = "omitted") =>
        /\ cmd[1] \in {<<"mysqldump">>, <<"pg_dump">>, <<"mongodump">>}
        /\ SelectsDatabase(cmd)
        /\ \A i \in 1..Len(cmd) : cmd[i] # <<"--all-databases">>
        /\ call.filename = NoPath => StartsWith(output_name, <<Database, "_">>)

\* C17: with no filename given, dump(all_databases=True) names its file
\* all_databases_... and builds a command with no database-selecting
\* argument, and dump(all_databases=False) names its file <database>_...
\* and builds a command that names the database, for every variant.
C17_AllDatabasesFlag ==
    (DumpBuilt /\ call.filename = NoPath) =>
        /\ call.all_databases = "True" =>
              /\ StartsWith(output_name, <<"all_databases", "_">>)
              /\ SelectsNoDatabase(cmd)
        /\ call.all_databases = "False" =>
              /\ StartsWith(output_name, <<Database, "_">>)
              /\ SelectsDatabase(cmd)

\* a MongoDB dump of all databases with a generated name
C17_Witness ==
    /\ DumpBuilt
    /\ call.kind = "mongodb"
    /\ call.all_databases = "True"
    /\ call.filename = NoPath
    /\ db_outcome = "returned"
    /\ StartsWith(output_name, <<"all_databases", "_">>)
    /\ SelectsNoDatabase(cmd)

\* C18: in every dump and restore the arguments made of the extra options
\* are, in map order, --key for True, nothing for False and None, and the
\* one argument --key=value for any other value.
C18_ExtraOptionsTranslation ==
    CmdBuilt => extra_args = FlagsOf(call.extra_options)

\* C19: the command of dump is the documented template: for MySQL the lock
\* toggle, --all-databases, the extra flags, the database; for pg_dump of
\* one database the extra flags, then the database; for mongodump the
\* credentials, --db and the extra flags, then --out <dir> last.
C19_ArgvOrder ==
    (DumpBuilt /\ ~ (call.kind = "postgresql"
                      /\ EffectiveAllDatabases(call.kind, call.all_databases))) =>
        cmd = TemplateCmd(call.kind, call.lock_tables,
                          EffectiveAllDatabases(call.kind, call.all_databases),
                          call.auth, extra_args, OutputPath(output_name))

\* C20: in the command of a PostgreSQL dump, cluster dump or restore whose
\* extra options do not hold the password, no argument contains the
\* password; the child gets it in PGPASSWORD and nowhere else.
C20_PgPasswordOnlyInEnv ==
    (CmdBuilt /\ call.kind = "postgresql"
       /\ \A i \in 1..Len(call.extra_options) : call.extra_options[i][2] # Password) =>
        /\ \A i \in 1..Len(cmd) : \A j \in 1..Len(cmd[i]) : cmd[i][j] # Password
        /\ child_env = {<<"PGPASSWORD", Password>>}

\* a pg_dump of one database with a scalar extra option was run
C20_Witness ==
    /\ CmdBuilt
    /\ call.kind = "postgresql"
    /\ call.op = "dump"
    /\ call.all_databases = "False"
    /\ call.extra_options = << <<"jobs", "4">> >>
    /\ cmd[1] = <<"pg_dump">>
    /\ child_env = {<<"PGPASSWORD", Password>>}

(***************************************************************************)
(* The two storage backends as stores of files.  A Google Drive file has   *)
(* an id and a name, and several files may have one name; it lies in the   *)
(* configured folder or elsewhere, and it may be a folder.  A MinIO object *)
(* is identified by its name.  An operation is called with a reference:    *)
(*   "download"   download_file(ref)                                       *)
(*   "delete"     delete_file(ref)                                         *)
(*   "roundtrip"  upload_file(F, ref), then download_file(ref)             *)
(* dpc runs "start" -> "uploaded" -> "done", or "start" -> "done".         *)
(***************************************************************************)
notDrvVars == <<now, bucket, backup_dir, jobVars, retVars, namVars, clnVars, rstVars, bkVars,
               delVars, dmpVars, lstVars, fmtVars, mgoVars, conVars, flwVars>>

\* len(path): the number of characters of a text
RECURSIVE TextLen(_)
TextLen(s) == IF s = <<>> THEN 0 ELSE Len(Head(s)) + TextLen(Tail(s))

\* c.isalnum() or c in '_-', for every character of the piece
IdCharsOnly(piece) == piece \notin {".", "/"}

\* GoogleDriveManager._is_file_id
_is_file_id(path) ==
    /\ TextLen(path) > 20
    /\ \A i \in 1..Len(path) : IdCharsOnly(path[i])

\* ids the Drive service has given out: one piece of 33 characters each
IdA == <<"1AbCdEfGhIjKlMnOpQrStUvWxYz012345">>
IdB == <<"1BcDeFgHiJkLmNoPqRsTuVwXyZa123456">>
IdC == <<"1CdEfGhIjKlMnOpQrStUvWxYzAb234567">>
IdD == <<"1DeFgHiJkLmNoPqRsTuVwXyZaBc345678">>
IdGone == <<"1EfGhIjKlMnOpQrStUvWxYzAbCd456789">>
IdNew == <<"1FgHiJkLmNoPqRsTuVwXyZaBcDe567890">>

DriveIds == {IdA, IdB, IdC, IdD, IdGone, IdNew}

\* the files a Drive can hold before the operation
DriveFiles ==
    { [id |-> IdA, name |-> ObjectNames[1], in_folder |-> TRUE, is_folder |-> FALSE,
       content |-> "old"],
      [id |-> IdB, name |-> ObjectNames[6], in_folder |-> TRUE, is_folder |-> FALSE,
       content |-> "old"],
      [id |-> IdC, name |-> ObjectNames[1], in_folder |-> FALSE, is_folder |-> FALSE,
       content |-> "other"],
      [id |-> IdD, name |-> <<"archive">>, in_folder |-> TRUE, is_folder |-> TRUE,
       content |-> "none"] }

\* a MinIO object: its name is its identity
MinioObject(name, content) ==
    [id |-> name, name |-> name, in_folder |-> TRUE, is_folder |-> FALSE, content |-> content]

MinioObjects == { MinioObject(ObjectNames[1], "old"), MinioObject(ObjectNames[6], "old") }

\* the references the operations are called with
RefNames == {ObjectNames[1], ObjectNames[6], ObjectNames[10]}
RefIds == {IdA, IdB, IdGone}

FolderIds == {"none", "folder"}

\* the files a query of the manager sees: those of the configured folder, if any
Scope(fs, folder) == {f \in fs : folder = "none" \/ f.in_folder}

\* the names list_files returns: the files in scope that are not folders
ListedNames(fs, folder) == {f.name : f \in {g \in Scope(fs, folder) : ~g.is_folder}}

(***************************************************************************)
(* GoogleDriveManager._find_file_by_name: the ids it can return.  The      *)
(* query names the file and, when configured, the folder; the first file   *)
(* of the answer is taken, and the service fixes no order; None (NoPath)   *)
(* when nothing matches or the query ends in HttpError.                    *)
(***************************************************************************)
_find_file_by_name(fs, folder, file_name, find) ==
    LET matches == {f \in Scope(fs, folder) : f.name = file_name}
    IN IF find = "HttpError" \/ matches = {}
       THEN {NoPath}
       ELSE {f.id : f \in matches}

\* how files().get and the chunked download can end
FetchResults == {"ok", "HttpError", "error"}

\* how files().create or fput_object can end
UploadResults == {"ok", "HttpError", "error"}

NoHit == [result |-> "none", via |-> "none", hit |-> NoPath, got |-> "none"]

(***************************************************************************)
(* GoogleDriveManager.download_file(path), after the connection is there:  *)
(* found is what _find_file_by_name returned, when it was called.          *)
(***************************************************************************)
gdrive_download_file(fs, path, found, find, fetch) ==
    LET by_id == _is_file_id(path)
        file_id == IF by_id THEN path ELSE found
        target == {f \in fs : f.id = file_id}
    IN IF ~by_id /\ find = "error"
       THEN [NoHit EXCEPT !.result = "raised"]
       ELSE IF ~by_id /\ found = NoPath
       THEN [NoHit EXCEPT !.result = "FileNotFoundError"]
       ELSE IF target = {} \/ (\E f \in target : f.is_folder) \/ fetch = "HttpError"
       THEN [result |-> "HttpError", via |-> IF by_id THEN "id" ELSE "name",
             hit |-> file_id, got |-> "none"]
       ELSE IF fetch = "error"
       THEN [result |-> "raised", via |-> IF by_id THEN "id" ELSE "name",
             hit |-> file_id, got |-> "none"]
       ELSE [result |-> "returned", via |-> IF by_id THEN "id" ELSE "name",
             hit |-> file_id, got |-> (CHOOSE f \in target : TRUE).content]

\* MinioManager.download_file(path), after the connection is there
minio_download_file(fs, path, fetch) ==
    LET target == {f \in fs : f.name = path}
    IN IF target = {} \/ fetch = "HttpError"
       THEN [NoHit EXCEPT !.result = "S3Error"]
       ELSE IF fetch = "error"
       THEN [NoHit EXCEPT !.result = "raised"]
       ELSE [result |-> "returned", via |-> "name", hit |-> path,
             got |-> (CHOOSE f \in target : TRUE).content]

(***************************************************************************)
(* GoogleDriveManager.delete_file(path), after the connection is there:    *)
(* False when the name is not found, False on HttpError from               *)
(* files().delete, which is what a path that is no id of a file gives.     *)
(***************************************************************************)
gdrive_delete_by_ref(fs, path, found, find, rm) ==
    LET by_id == _is_file_id(path)
        file_id == IF by_id THEN path ELSE found
        target == {f \in fs : f.id = file_id}
        how == IF by_id THEN "id" ELSE "name"
    IN IF ~by_id /\ find = "error"
       THEN [fs |-> fs, result |-> "raised", via |-> "none", hit |-> NoPath]
       ELSE IF ~by_id /\ found = NoPath
       THEN [fs |-> fs, result |-> "False", via |-> "none", hit |-> NoPath]
       ELSE IF target = {} \/ rm = "HttpError"
       THEN [fs |-> fs, result |-> "False", via |-> how, hit |-> file_id]
       ELSE IF rm = "error"
       THEN [fs |-> fs, result |-> "raised", via |-> how, hit |-> file_id]
       ELSE [fs |-> fs \ target, result |-> "True", via |-> how, hit |-> file_id]

\* the faults among the outcomes chosen for the backend calls of one operation
Faults(c, alive, ok, find, other) ==
    (IF ~(c = "live" /\ alive) /\ ~ok THEN {"connect"} ELSE {})
    \cup (IF find # "answered" THEN {"find"} ELSE {})
    \cup (IF other \notin {"ok", "removed"} THEN {"call"} ELSE {})

\* upload_file(F, ref): Drive creates one more file, MinIO replaces the object
st_upload_file ==
    /\ dpc = "start"
    /\ req = "roundtrip"
    /\ \E alive \in BOOLEAN, ok \in BOOLEAN, up \in UploadResults :
          LET r == StEnsureConnected(client, alive, ok)
              made == IF storage = "gdrive"
                      THEN store \cup {[id |-> IdNew, name |-> ref,
                                        in_folder |-> folder_id # "none",
                                        is_folder |-> FALSE, content |-> "F"]}
                      ELSE {f \in store : f.name # ref} \cup {MinioObject(ref, "F")}
          IN /\ client' = r.conn
             /\ dr_faults' = dr_faults \cup Faults(client, alive, ok, "answered", up)
             /\ IF r.raised \/ up # "ok"
                THEN /\ store' = store
                     /\ dpc' = "done"
                     /\ dr_outcome' = IF ~r.raised /\ up = "HttpError" /\ storage = "gdrive"
                                      THEN "HttpError"
                                      ELSE IF ~r.raised /\ up = "HttpError"
                                      THEN "S3Error"
                                      ELSE "raised"
                ELSE /\ store' = made
                     /\ dpc' = "uploaded"
                     /\ dr_outcome' = "none"
    /\ UNCHANGED <<storage, folder_id, ref, req, via, hit, got, store_before>>
    /\ UNCHANGED notDrvVars

\* download_file(ref)
st_download_file ==
    /\ \/ dpc = "start" /\ req = "download"
       \/ dpc = "uploaded"
    /\ \E alive \in BOOLEAN, ok \in BOOLEAN, find \in FindOutcomes, fetch \in FetchResults :
       \E found \in _find_file_by_name(store, folder_id, ref, find) :
          LET r == StEnsureConnected(client, alive, ok)
              d == IF r.raised
                   THEN [NoHit EXCEPT !.result = "raised"]
                   ELSE IF storage = "gdrive"
                   THEN gdrive_download_file(store, ref, found, find, fetch)
                   ELSE minio_download_file(store, ref, fetch)
          IN /\ client' = r.conn
             /\ dr_faults' = dr_faults \cup Faults(client, alive, ok, find, fetch)
             /\ dr_outcome' = d.result
             /\ via' = d.via
             /\ hit' = d.hit
             /\ got' = d.got
    /\ dpc' = "done"
    /\ UNCHANGED <<storage, store, folder_id, ref, req, store_before>>
    /\ UNCHANGED notDrvVars

\* delete_file(ref)
st_delete_file ==
    /\ dpc = "start"
    /\ req = "delete"
    /\ \E alive \in BOOLEAN, ok \in BOOLEAN, find \in FindOutcomes,
          rm \in RemoveOutcomes, drm \in DriveDeleteOutcomes :
       \E found \in _find_file_by_name(store, folder_id, ref, find) :
          LET r == StEnsureConnected(client, alive, ok)
              m == delete_file(client, {f.name : f \in store}, ref, alive, ok, rm)
              g == gdrive_delete_by_ref(store, ref, found, find, drm)
          IN /\ client' = r.conn
             /\ IF storage = "minio"
                THEN /\ store' = {f \in store : f.name \in m.objects}
                     /\ dr_outcome' = m.result
                     /\ via' = "name"
                     /\ hit' = ref
                     /\ dr_faults' = dr_faults
                            \cup Faults(client, alive, ok, "answered",
                                        IF rm = "removed" THEN "removed" ELSE "failed")
                ELSE /\ store' = IF r.raised THEN store ELSE g.fs
                     /\ dr_outcome' = IF r.raised THEN "raised" ELSE g.result
                     /\ via' = IF r.raised THEN "none" ELSE g.via
                     /\ hit' = IF r.raised THEN NoPath ELSE g.hit
                     /\ dr_faults' = dr_faults \cup Faults(client, alive, ok, find, drm)
    /\ dpc' = "done"
    /\ UNCHANGED <<storage, folder_id, ref, req, got, store_before>>
    /\ UNCHANGED notDrvVars

DrvInit ==
    /\ now \in JobClock
    /\ client \in ConnStates
    /\ bucket = {}
    /\ backup_dir = [exists |-> TRUE, files |-> {}]
    /\ JobIdle
    /\ RetIdle
    /\ NamIdle
    /\ ClnIdle
    /\ RstIdle
    /\ BkIdle
    /\ storage \in Storages
    /\ del_path = NoPath
    /\ del_before = {}
    /\ del_outcome = "none"
    /\ DmpIdle
    /\ folder_id \in (IF storage = "gdrive" THEN FolderIds ELSE {"none"})
    /\ store \in (IF storage = "gdrive" THEN SUBSET DriveFiles ELSE SUBSET MinioObjects)
    /\ ref \in (IF storage = "gdrive" THEN RefNames \cup RefIds ELSE RefNames)
    /\ req \in (IF ref \in RefNames THEN {"download", "delete", "roundtrip"}
                ELSE {"download", "delete"})
    /\ dpc = "start"
    /\ dr_outcome = "none"
    /\ via = "none"
    /\ hit = NoPath
    /\ got = "none"
    /\ store_before = store
    /\ dr_faults = {}
    /\ LstIdle
    /\ FmtIdle
    /\ MgoIdle
    /\ ConIdle
    /\ FlwIdle

DrvNext ==
    \/ st_upload_file
    \/ st_download_file
    \/ st_delete_file

SpecDrive == DrvInit /\ [][DrvNext]_vars

\* C21: on Google Drive, download and delete take a reference as an id only when it
\* is one; a name is resolved to a file of that name inside the configured folder;
\* and a download of a name that no file in scope has ends in FileNotFoundError
\* (unless the connection or the query itself failed).
C21_ReferenceResolution ==
    (storage = "gdrive" /\ dpc = "done" /\ req \in {"download", "delete"}) =>
        /\ via = "id" => ref \in DriveIds
        /\ via = "name" =>
              \E f \in Scope(store_before, folder_id) : f.id = hit /\ f.name = ref
        /\ (/\ req = "download"
            /\ ref \notin DriveIds
            /\ ref \notin {f.name : f \in Scope(store_before, folder_id)})
           => dr_outcome \in {"FileNotFoundError", "raised"}

\* C22: on either backend and from any prior store, upload_file(F, n) followed by
\* download_file(n) writes a local file whose contents are those of F (no backend
\* call being made to fail).
C22_UploadDownloadRoundTrip ==
    (dpc = "done" /\ req = "roundtrip" /\ dr_faults = {}) =>
        /\ dr_outcome = "returned"
        /\ got = "F"

\* C27: on Google Drive, delete_file of a name that list_files returns resolves the
\* name to a listed file and deletes it (no backend call being made to fail).
C27_ListedNamesAreDeletable ==
    (/\ storage = "gdrive"
     /\ dpc = "done"
     /\ req = "delete"
     /\ ref \in ListedNames(store_before, folder_id)
     /\ dr_faults = {})
    => /\ dr_outcome = "True"
       /\ \E f \in store_before \ store :
             f.name = ref /\ f \in Scope(store_before, folder_id) /\ ~f.is_folder

(***************************************************************************)
(* list_files.  The backend answers the query in pages; a page carries the *)
(* token of the next page unless it is the last.  GoogleDriveManager asks  *)
(* for the pages itself, one loop iteration per page; MinioManager walks   *)
(* the iterator of list_objects, which asks for them.  lpc runs            *)
(*   "start" -> "loop" -> ... -> "returned", or -> "raised".               *)
(***************************************************************************)
notLstVars == <<now, bucket, backup_dir, jobVars, retVars, namVars, clnVars, rstVars, bkVars,
               del_path, del_before, del_outcome, dmpVars, drvVars, fmtVars, mgoVars, conVars,
               flwVars>>

MaxPages == 3

\* the entries of a listing: files, a folder, and an entry without a size
\* (the service gives the size as text, and gives none for some files)
FileEntry == [name |-> ObjectNames[1], size |-> <<"1", "5", "3", "6">>, is_folder |-> FALSE]
OtherEntry == [name |-> ObjectNames[10], size |-> <<>>, is_folder |-> FALSE]
FolderEntry == [name |-> <<"archive">>, size |-> <<>>, is_folder |-> TRUE]

PageChoices == { <<>>, <<FileEntry>>, <<FolderEntry, OtherEntry>>, <<FolderEntry>> }

PageChains == UNION { [1..n -> PageChoices] : n \in 1..MaxPages }

\* how one request for a page can end
PageResults == {"ok", "HttpError", "error"}

\* response.get('nextPageToken') of page number n
NextPageToken(chain, n) == IF n < Len(chain) THEN n + 1 ELSE 0

\* int(file.get('size', 0)) if file.get('size') else 0
SizeOf(entry) == IF entry.size = <<>> THEN 0 ELSE NumVal(entry.size)

\* the pairs one page adds to the result: Drive skips the folder entries
PageItems(kind, page) ==
    LET kept == IF kind = "gdrive" THEN SelectSeq(page, LAMBDA en : ~en.is_folder) ELSE page
    IN [i \in 1..Len(kept) |-> <<kept[i].name, SizeOf(kept[i])>>]

\* the variant of the loop's exit test that leaves after the first page
LastPageAlways(token) == TRUE

\* if not page_token: break
LastPage(token) == token = 0

\* list_files up to the loop: connect when not connected, result = [], page_token = None
list_files_start ==
    /\ lpc = "start"
    /\ \E alive \in BOOLEAN, ok \in BOOLEAN :
          LET r == StEnsureConnected(client, alive, ok)
          IN /\ client' = r.conn
             /\ lpc' = IF r.raised THEN "raised" ELSE "loop"
    /\ result' = <<>>
    /\ page_token' = 0
    /\ UNCHANGED <<storage, pages, requests>>
    /\ UNCHANGED notLstVars

\* one iteration of the loop: request the page, collect its entries, take the token
list_files_page ==
    /\ lpc = "loop"
    /\ \E answer \in PageResults :
          LET n == IF page_token = 0 THEN 1 ELSE page_token
              token == NextPageToken(pages, n)
          IN /\ requests' = requests + 1
             /\ IF answer # "ok"
                THEN /\ lpc' = "raised"
                     /\ UNCHANGED <<result, page_token>>
                ELSE /\ result' = result \o PageItems(storage, pages[n])
                     /\ page_token' = token
                     /\ lpc' = IF LastPage(token) THEN "returned" ELSE "loop"
    /\ UNCHANGED <<client, storage, pages>>
    /\ UNCHANGED notLstVars

LstInit ==
    /\ now \in JobClock
    /\ client \in ConnStates
    /\ bucket = {}
    /\ backup_dir = [exists |-> TRUE, files |-> {}]
    /\ JobIdle
    /\ RetIdle
    /\ NamIdle
    /\ ClnIdle
    /\ RstIdle
    /\ BkIdle
    /\ storage \in Storages
    /\ del_path = NoPath
    /\ del_before = {}
    /\ del_outcome = "none"
    /\ DmpIdle
    /\ DrvIdle
    /\ pages \in PageChains
    /\ page_token = 0
    /\ result = <<>>
    /\ requests = 0
    /\ lpc = "start"
    /\ FmtIdle
    /\ MgoIdle
    /\ ConIdle
    /\ FlwIdle

LstNext ==
    \/ list_files_start
    \/ list_files_page

SpecListing == LstInit /\ [][LstNext]_vars

\* a call that has begun goes on: every request for a page is answered
SpecListingFair == SpecListing /\ WF_vars(LstNext)

RECURSIVE AllEntries(_)
AllEntries(chain) ==
    IF chain = <<>> THEN <<>> ELSE Head(chain) \o AllEntries(Tail(chain))

NonFolderPairs(chain) ==
    LET kept == SelectSeq(AllEntries(chain), LAMBDA en : ~en.is_folder)
    IN [i \in 1..Len(kept) |-> <<kept[i].name, SizeOf(kept[i])>>]

\* C23: list_files returns every non-folder entry of every page of the answer: it
\* has requested every page of the chain when it returns, on Google Drive it returns
\* the non-folder entries of all pages in order and nothing else, and on a finite
\* chain the call always ends (returns or raises).
C23_ListExhaustsPages ==
    /\ [](lpc = "returned" =>
            /\ requests = Len(pages)
            /\ page_token = 0
            /\ \A i \in 1..Len(NonFolderPairs(pages)) :
                  \E j \in 1..Len(result) : result[j] = NonFolderPairs(pages)[i]
            /\ storage = "gdrive" => result = NonFolderPairs(pages))
    /\ <>(lpc \in {"returned", "raised"})

\* a listing of three pages, the second one with a folder, has returned
C23_Witness ==
    /\ lpc = "returned"
    /\ storage = "gdrive"
    /\ Len(pages) = 3
    /\ pages[2] = <<FolderEntry, OtherEntry>>
    /\ pages[3] = <<FileEntry>>
    /\ Len(result) = 2

(***************************************************************************)
(* The size text of list_backups.  _format_size divides by 1024.0, which   *)
(* is exact in binary floating point for the sizes here, so a value is     *)
(* kept as num * 1024^up / 1024^down with integers num, up, down; a size   *)
(* in bytes has down = 0.  "%.2f" rounds the exact value to two decimals,  *)
(* a tie to the even digit.                                                *)
(***************************************************************************)
notFmtVars == <<envVars, jobVars, retVars, namVars, clnVars, rstVars, bkVars, delVars, dmpVars,
               drvVars, lstVars, mgoVars, conVars, flwVars>>

MaxMantissa == 2100
MaxShift == 5

\* the sizes a listing can give: m * 1024^k bytes
FileSizes ==
    { [num |-> m, up |-> k, down |-> 0] :
        m \in 1..MaxMantissa \cup {1048575}, k \in 0..MaxShift }
    \cup { [num |-> 0, up |-> 0, down |-> 0] }

Units == <<"B", "KB", "MB", "GB", "TB">>

\* the variant of the loop's test that keeps 1024 in the smaller unit
AtMost1024(v) ==
    IF v.up > 0 THEN v.num = 0 ELSE v.num <= 1024 ^ (v.down + 1)

\* size_bytes < 1024.0
Below1024(v) ==
    IF v.up > 0 THEN v.num = 0 ELSE v.num < 1024 ^ (v.down + 1)

\* size_bytes /= 1024.0
Div1024(v) ==
    IF v.up > 0 THEN [v EXCEPT !.up = @ - 1] ELSE [v EXCEPT !.down = @ + 1]

\* f"{size_bytes:.2f}"
Format2f(v) ==
    LET scale == 1024 ^ v.down
        whole == IF v.up > 0 THEN v.num * 1024 ^ v.up ELSE v.num \div scale
        x == IF v.up > 0 THEN 0 ELSE (v.num % scale) * 100
        q == x \div scale
        r == x % scale
        h == IF 2 * r > scale \/ (2 * r = scale /\ q % 2 = 1) THEN q + 1 ELSE q
    IN IF h = 100
       THEN Decimal(whole + 1, 1) \o <<".", "0", "0">>
       ELSE Decimal(whole, 1) \o <<".">> \o Decimal(h, 2)

\* the loop of _format_size from the unit number i on
RECURSIVE FormatFrom(_, _)
FormatFrom(v, i) ==
    IF i > Len(Units) THEN Format2f(v) \o <<" ", "PB">>
    ELSE IF Below1024(v) THEN Format2f(v) \o <<" ", Units[i]>>
    ELSE FormatFrom(Div1024(v), i + 1)

\* DatabaseBackup._format_size
_format_size(size_bytes) == FormatFrom(size_bytes, 1)

\* list_backups: the size_human of one listed file
list_backups_entry ==
    /\ fpc = "start"
    /\ size_human' = _format_size(file_size)
    /\ fpc' = "done"
    /\ UNCHANGED file_size
    /\ UNCHANGED notFmtVars

FmtInit ==
    /\ now \in JobClock
    /\ client = "live"
    /\ bucket = {}
    /\ backup_dir = [exists |-> TRUE, files |-> {}]
    /\ JobIdle
    /\ RetIdle
    /\ NamIdle
    /\ ClnIdle
    /\ RstIdle
    /\ BkIdle
    /\ DelIdle
    /\ DmpIdle
    /\ DrvIdle
    /\ LstIdle
    /\ file_size \in FileSizes
    /\ size_human = <<>>
    /\ fpc = "start"
    /\ MgoIdle
    /\ ConIdle
    /\ FlwIdle

FmtNext == list_backups_entry

SpecFormat == FmtInit /\ [][FmtNext]_vars

\* whether the size is below 1024^i bytes
SizeBelow(sz, i) ==
    sz.num = 0 \/ (i > sz.up /\ (i - sz.up >= 2 \/ sz.num < 1024))

\* the unit the ladder prescribes for a size
LadderUnit(sz) ==
    IF \E i \in 1..Len(Units) : SizeBelow(sz, i)
    THEN Units[CHOOSE i \in 1..Len(Units) :
                 SizeBelow(sz, i) /\ \A j \in 1..(i - 1) : ~SizeBelow(sz, j)]
    ELSE "PB"

\* C24: the size text of list_backups ends in the smallest unit of B/KB/MB/GB/TB for
\* which the size scaled by 1024 per step is below 1024, PB beyond TB; a whole number
\* of units below 1024 is shown with ".00"; 0 gives "0.00 B", 1024 "1.00 KB",
\* 1536 "1.50 KB" and 1048576 "1.00 MB".
C24_SizeLadder ==
    fpc = "done" =>
        /\ size_human[Len(size_human)] = LadderUnit(file_size)
        /\ size_human[Len(size_human) - 1] = " "
        /\ (file_size.num \in 1..1023 /\ file_size.up < Len(Units)) =>
              size_human = Decimal(file_size.num, 1)
                             \o <<".", "0", "0", " ", Units[file_size.up + 1]>>
        /\ file_size = [num |-> 0, up |-> 0, down |-> 0] =>
              size_human = <<"0", ".", "0", "0", " ", "B">>
        /\ file_size = [num |-> 1024, up |-> 0, down |-> 0] =>
              size_human = <<"1", ".", "0", "0", " ", "KB">>
        /\ file_size = [num |-> 1536, up |-> 0, down |-> 0] =>
              size_human = <<"1", ".", "5", "0", " ", "KB">>
        /\ file_size \in {[num |-> 1, up |-> 2, down |-> 0], [num |-> 1024, up |-> 1, down |-> 0]} =>
              size_human = <<"1", ".", "0", "0", " ", "MB">>

\* 1536 bytes have been formatted
C24_Witness ==
    /\ fpc = "done"
    /\ file_size = [num |-> 1536, up |-> 0, down |-> 0]
    /\ size_human = <<"1", ".", "5", "0", " ", "KB">>

(***************************************************************************)
(* MongoDBManager.restore of a backup file.  The file is the archive       *)
(* <name>.tar.gz that MongoDBManager.dump left, either still under that    *)
(* name ("local_dump") or uploaded by create_backup(remote_path) and       *)
(* fetched by restore_backup(backup_path, local_path, remove_local=False)  *)
(* ("uploaded").  restore extracts a .tar.gz into a directory made by      *)
(* mkdtemp and gives mongorestore the extracted directory.                 *)
(***************************************************************************)
notMgoVars == <<envVars, jobVars, retVars, namVars, clnVars, rstVars, bkVars, delVars, dmpVars,
               drvVars, lstVars, fmtVars, conVars, flwVars>>

TarGz == <<".", "tar", ".", "gz">>

\* sql_file.endswith('.tar.gz')
EndsWithTarGz(name) ==
    Len(name) >= Len(TarGz) /\ SubSeq(name, Len(name) - Len(TarGz) + 1, Len(name)) = TarGz

\* the remote names and local paths the caller can give; NoPath is None
GivenRemotePaths == {NoPath, <<"nightly", ".", "tar", ".", "gz">>, CustomRemotePath}
GivenLocalPaths == {NoPath, <<"restore", ".", "tar", ".", "gz">>, CustomLocalPath}

Chains ==
    [kind : {"uploaded"}, remote_path : GivenRemotePaths, local_path : GivenLocalPaths]
    \cup [kind : {"local_dump"}, remote_path : {NoPath}, local_path : {NoPath}]

\* the name the archive has where restore finds it
ArtifactPath(c, t) ==
    LET dumped == DumpFilename("mongodb", NoPath, FALSE, t) \o TarGz
        remote == IF c.remote_path = NoPath THEN DefaultRemotePath(t) ELSE c.remote_path
    IN IF c.kind = "local_dump" THEN dumped
       ELSE IF c.local_path = NoPath THEN Basename(remote)
       ELSE c.local_path

\* how mkdtemp and extractall can end, and how the tool can end
ExtractOutcomes == {"ok", "mkdtemp_failed", "extract_failed"}
ToolOutcomes == {"ok", "nonzero", "error"}

\* MongoDBManager.restore(sql_file, extra_options)
mongo_restore ==
    /\ mr_outcome = "none"
    /\ origin # NoChain
    /\ \E there \in BOOLEAN, ex \in ExtractOutcomes, tool \in ToolOutcomes :
          LET file == ArtifactPath(origin, now)
              archive == EndsWithTarGz(file)
              made == there /\ archive /\ ex # "mkdtemp_failed"
              usable == there /\ (~archive \/ ex = "ok")
              given == IF archive THEN "extracted" ELSE "file"
          IN /\ sql_file' = file
             /\ temp_dir' = IF made THEN "made" ELSE "None"
             /\ scratch' = (made /\ ~usable)
             /\ mongo_arg' = IF usable THEN given ELSE "none"
             /\ mr_cmd' = IF usable
                          THEN MongoRestoreCmd(<<given>>, mr_options.extra_options,
                                               mr_options.auth, mr_options.has_db_dir)
                          ELSE <<>>
             /\ mr_outcome' = IF ~there THEN "FileNotFoundError"
                              ELSE IF usable /\ tool = "ok" THEN "True"
                              ELSE "raised"
    /\ UNCHANGED <<origin, mr_options>>
    /\ UNCHANGED notMgoVars

MgoInit ==
    /\ now \in JobClock
    /\ client = "none"
    /\ bucket = {}
    /\ backup_dir = [exists |-> TRUE, files |-> {}]
    /\ JobIdle
    /\ RetIdle
    /\ NamIdle
    /\ ClnIdle
    /\ RstIdle
    /\ BkIdle
    /\ DelIdle
    /\ DmpIdle
    /\ DrvIdle
    /\ LstIdle
    /\ FmtIdle
    /\ origin \in Chains
    /\ sql_file = NoPath
    /\ temp_dir = "None"
    /\ scratch = FALSE
    /\ mongo_arg = "none"
    /\ mr_options \in [extra_options : OptionMaps, auth : BOOLEAN, has_db_dir : BOOLEAN]
    /\ mr_cmd = <<>>
    /\ mr_outcome = "none"
    /\ ConIdle
    /\ FlwIdle

MgoNext == mongo_restore

SpecMongoRestore == MgoInit /\ [][MgoNext]_vars

\* C25: once MongoDBManager.restore has returned or raised, the scratch directory it
\* made for a .tar.gz archive no longer exists.
C25_ScratchDirectoryRemoved ==
    mr_outcome # "none" => ~scratch

\* C29: a MongoDB backup uploaded by create_backup under its default remote name and
\* fetched by restore_backup to its default local path is taken for a .tar.gz
\* archive by restore: it is extracted, and mongorestore gets the extracted directory.
C29_DefaultNamedArchiveExtracted ==
    (/\ mr_outcome \in {"True", "raised"}
     /\ origin.kind = "uploaded"
     /\ origin.remote_path = NoPath
     /\ origin.local_path = NoPath)
    => /\ EndsWithTarGz(sql_file)
       /\ mongo_arg # "file"

(***************************************************************************)
(* GoogleDriveManager.connect.  With a service account file the            *)
(* credentials come from that file.  Otherwise the credentials pickled at  *)
(* token_path are loaded, refreshed or replaced by those of the            *)
(* interactive flow when they are not valid, and pickled again.            *)
(* Credentials are valid when they hold a token that has not expired.      *)
(***************************************************************************)
notConVars == <<envVars, jobVars, retVars, namVars, clnVars, rstVars, bkVars, delVars, dmpVars,
               drvVars, lstVars, fmtVars, mgoVars, flwVars>>

\* the credentials a token file can hold
StoredTokens ==
    {NoToken} \cup [present : {TRUE}, token : BOOLEAN, expired : BOOLEAN,
                    refresh_token : BOOLEAN]

\* creds.valid
Valid(creds) == creds.token /\ ~creds.expired

\* the variant of the test that never takes the stored credentials as they are
NeedsAuthAlways(creds) == TRUE

\* not creds or not creds.valid
NeedsAuth(creds) == ~creds.present \/ ~Valid(creds)

\* creds and creds.expired and creds.refresh_token
Refreshable(creds) == creds.present /\ creds.expired /\ creds.refresh_token

\* the credentials after creds.refresh(Request()) and after flow.run_local_server
Refreshed(creds) == [creds EXCEPT !.token = TRUE, !.expired = FALSE]
Authenticated == [present |-> TRUE, token |-> TRUE, expired |-> FALSE, refresh_token |-> TRUE]

\* build and the about() request that end connect
connect_finish(steps, probe) ==
    [service |-> "built",
     steps   |-> steps \o <<"build", "probe">>,
     outcome |-> IF probe THEN "returned" ELSE "raised"]

\* GoogleDriveManager.connect
gdrive_connect ==
    /\ gd_outcome = "none"
    /\ auth_mode # "none"
    /\ \E refresh_ok \in BOOLEAN, flow_ok \in BOOLEAN, probe \in BOOLEAN :
          LET creds == token_store
              end(steps) == connect_finish(steps, probe)
              set(tok, srv, steps, outcome) ==
                  /\ token_store' = tok
                  /\ service' = srv
                  /\ gd_steps' = steps
                  /\ gd_outcome' = outcome
          IN IF auth_mode = "service_account"
             THEN set(token_store, end(<<"service_account">>).service,
                      end(<<"service_account">>).steps, end(<<"service_account">>).outcome)
             ELSE LET loaded == IF creds.present THEN <<"load">> ELSE <<>>
                  IN IF ~NeedsAuth(creds)
                     THEN set(token_store, end(loaded).service, end(loaded).steps,
                              end(loaded).outcome)
                     ELSE IF Refreshable(creds)
                     THEN (IF refresh_ok
                           THEN LET e == end(loaded \o <<"refresh", "write">>)
                                IN set(Refreshed(creds), e.service, e.steps, e.outcome)
                           ELSE set(token_store, service, loaded \o <<"refresh.raised">>,
                                    "raised"))
                     ELSE IF ~cred_file
                     THEN set(token_store, service, loaded, "FileNotFoundError")
                     ELSE IF flow_ok
                     THEN LET e == end(loaded \o <<"flow", "write">>)
                          IN set(Authenticated, e.service, e.steps, e.outcome)
                     ELSE set(token_store, service, loaded \o <<"flow.raised">>, "raised")
    /\ UNCHANGED <<auth_mode, token_before, cred_file>>
    /\ UNCHANGED notConVars

ConInit ==
    /\ now \in JobClock
    /\ client = "none"
    /\ bucket = {}
    /\ backup_dir = [exists |-> TRUE, files |-> {}]
    /\ JobIdle
    /\ RetIdle
    /\ NamIdle
    /\ ClnIdle
    /\ RstIdle
    /\ BkIdle
    /\ DelIdle
    /\ DmpIdle
    /\ DrvIdle
    /\ LstIdle
    /\ FmtIdle
    /\ MgoIdle
    /\ auth_mode \in {"service_account", "oauth"}
    /\ token_store \in StoredTokens
    /\ token_before = token_store
    /\ cred_file \in BOOLEAN
    /\ service \in {"none", "built"}
    /\ gd_steps = <<>>
    /\ gd_outcome = "none"
    /\ FlwIdle

ConNext == gdrive_connect

SpecConnect == ConInit /\ [][ConNext]_vars

\* C26: in OAuth mode connect reuses a valid stored token without refresh,
\* interactive flow or rewriting; refreshes an expired token that has a refresh token
\* without the interactive flow; goes to the interactive flow in every other case
\* (which needs the credentials file, else FileNotFoundError); and writes the token
\* store after every refresh or authentication that succeeded, and only then.
C26_CredentialStateMachine ==
    (gd_outcome # "none" /\ auth_mode = "oauth") =>
        LET did(x) == Has(gd_steps, x)
            tried(x) == did(x) \/ did(IF x = "refresh" THEN "refresh.raised" ELSE "flow.raised")
            valid == token_before.present /\ Valid(token_before)
            refreshable == ~valid /\ Refreshable(token_before)
        IN /\ valid => /\ ~tried("refresh") /\ ~tried("flow") /\ ~did("write")
                       /\ token_store = token_before
           /\ refreshable => tried("refresh") /\ ~tried("flow")
           /\ (~valid /\ ~refreshable) =>
                 /\ ~tried("refresh")
                 /\ IF cred_file THEN tried("flow") ELSE gd_outcome = "FileNotFoundError"
           /\ (did("refresh") \/ did("flow")) =>
                 /\ did("write")
                 /\ token_store.present /\ Valid(token_store)
           /\ did("write") => did("refresh") \/ did("flow")
           /\ ~did("write") => token_store = token_before

\* an expired token with a refresh token has been refreshed and stored
C26_Witness ==
    /\ gd_outcome = "returned"
    /\ auth_mode = "oauth"
    /\ token_before = [present |-> TRUE, token |-> TRUE, expired |-> TRUE,
                       refresh_token |-> TRUE]
    /\ gd_steps = <<"load", "refresh", "write", "build", "probe">>
    /\ token_store = [present |-> TRUE, token |-> TRUE, expired |-> FALSE,
                      refresh_token |-> TRUE]

\* C30: after restore_backup has returned True, the downloaded file exists at the
\* local path exactly when remove_local is false; with remove_local true the file was
\* downloaded and then removed before the return.
C30_LocalFileKeptIffNotRemoved ==
    (pc = "rb_returned" /\ restored = "True") =>
        /\ local_copy <=> ~remove_local
        /\ local_path = NoPath =>
              (downloaded_path \in backup_dir.files <=> ~remove_local)
        /\ remove_local =>
              \E i \in 1..Len(trace) :
                 /\ trace[i] = "remove"
                 /\ Before(trace, {"download.returned"}, i)
        /\ ~remove_local => ~Has(trace, "remove")

\* restore_backup with remove_local true has returned True: the file that was
\* downloaded into the working directory is gone again
C30_Witness ==
    /\ pc = "rb_returned"
    /\ restored = "True"
    /\ remove_local
    /\ local_path = NoPath
    /\ Has(trace, "download.returned")
    /\ downloaded_path = Basename(backup_path)
    /\ downloaded_path \notin backup_dir.files
    /\ ~local_copy

(***************************************************************************)
(* The flows mysql_backup and postgres_backup of main.py: the task         *)
(* create_backup_task, then the task clean_old_backups_task with           *)
(* days = 30 (MySQL) or days = 7 (PostgreSQL).  A task that raises ends    *)
(* the flow, since the flow calls the tasks one after the other and        *)
(* catches nothing.  flow_pc runs "task1" -> "task2" -> "done", or ->      *)
(* "failed" from either task.                                              *)
(***************************************************************************)
FlowKinds == {"mysql", "postgresql"}

\* the backups the bucket holds when the flow starts
FlowObjects == {ObjectNames[1], ObjectNames[4], ObjectNames[5]}

\* days of the flow's call of clean_old_backups_task
FlowDays(kind) == IF kind = "mysql" THEN 30 ELSE 7

\* a flow that goes on to the second task whether or not the first one returned
flow_clean_task_start_always ==
    /\ flow_pc = "task1"
    /\ pc \in {"t_returned", "t_raised"}
    /\ flow_pc' = "task2"
    /\ rpc' = "r_start"
    /\ days' = FlowDays(db_kind)
    /\ prefix' = NoPath
    /\ listed' = bucket
    /\ UNCHANGED <<files, idx, deleted_count, delete_calls, delete_results>>
    /\ UNCHANGED <<envVars, jobVars, namVars, clnVars, rstVars, bkVars, delVars, dmpVars>>
    /\ UNCHANGED <<drvVars, lstVars, fmtVars, mgoVars, conVars>>

\* mysql_backup, lines 92-95: create_backup_task has returned, and
\* clean_old_backups_task calls clean_old_backups(days=days)
flow_clean_task_start ==
    /\ flow_pc = "task1"
    /\ pc = "t_returned"
    /\ flow_pc' = "task2"
    /\ rpc' = "r_start"
    /\ days' = FlowDays(db_kind)
    /\ prefix' = NoPath
    /\ listed' = bucket
    /\ UNCHANGED <<files, idx, deleted_count, delete_calls, delete_results>>
    /\ UNCHANGED <<envVars, jobVars, namVars, clnVars, rstVars, bkVars, delVars, dmpVars>>
    /\ UNCHANGED <<drvVars, lstVars, fmtVars, mgoVars, conVars>>

\* mysql_backup, line 92: create_backup_task has raised, and so does the flow
flow_backup_task_raised ==
    /\ flow_pc = "task1"
    /\ pc = "t_raised"
    /\ flow_pc' = "failed"
    /\ UNCHANGED <<envVars, jobVars, retVars, namVars, clnVars, rstVars, bkVars, delVars, dmpVars>>
    /\ UNCHANGED <<drvVars, lstVars, fmtVars, mgoVars, conVars>>

\* clean_old_backups_task, lines 47-58: return or raise, and on both paths
\* disconnect the database manager when it says it is connected
flow_clean_task_finally ==
    /\ flow_pc = "task2"
    /\ rpc \in {"r_returned", "r_raised"}
    /\ \E alive \in BOOLEAN :
          connection' = IF connection = "live" /\ alive
                        THEN disconnect(db_kind, connection, alive)
                        ELSE connection
    /\ flow_pc' = IF rpc = "r_returned" THEN "done" ELSE "failed"
    /\ UNCHANGED <<pc, viaTask, remove_local, remote_path, db_kind,
                   local_backup_path, storage_path, returned, trace>>
    /\ UNCHANGED <<envVars, retVars, namVars, clnVars, rstVars, bkVars, delVars, dmpVars>>
    /\ UNCHANGED <<drvVars, lstVars, fmtVars, mgoVars, conVars>>

FlowInit ==
    /\ now \in JobClock
    /\ client \in ConnStates
    /\ bucket \in SUBSET FlowObjects
    /\ backup_dir \in [exists : {TRUE}, files : SUBSET {StaleFile}]
    /\ pc = "cb_db"
    /\ viaTask = TRUE
    /\ remove_local = TRUE
    /\ remote_path = NoPath
    /\ db_kind \in FlowKinds
    /\ connection \in ConnStates
    /\ local_backup_path = NoFile
    /\ storage_path = NoPath
    /\ returned = NoPath
    /\ trace = <<>>
    /\ RetIdle
    /\ NamIdle
    /\ ClnIdle
    /\ RstIdle
    /\ BkIdle
    /\ DelIdle
    /\ DmpIdle
    /\ DrvIdle
    /\ LstIdle
    /\ FmtIdle
    /\ MgoIdle
    /\ ConIdle
    /\ flow_pc = "task1"

FlowNext ==
    \/ Next
    \/ flow_backup_task_raised
    \/ flow_clean_task_start
    \/ RetNext
    \/ flow_clean_task_finally

SpecFlow == FlowInit /\ [][FlowNext]_vars

\* C28: in the backup flows the sweep runs only after create_backup_task has
\* returned: clean_old_backups is in progress or over only then, a flow whose backup
\* failed (at connect, dump, upload, or later in the task) has called neither
\* clean_old_backups nor delete_file, and no object leaves the bucket except in the
\* sweep that follows a task that returned.
C28_SweepOnlyAfterBackup ==
    /\ [](/\ rpc # "idle" => pc = "t_returned"
          /\ (pc \in {"cb_raised", "t_list_raised", "t_raised"} \/ CreateBackupRaised) =>
                /\ rpc = "idle"
                /\ delete_calls = <<>>
                /\ deleted_count = 0
                /\ flow_pc \in {"task1", "failed"})
    /\ [][(\E n \in bucket : n \notin bucket') => (pc = "t_returned" /\ rpc = "r_loop")]_vars

\* the upload failed while the bucket held a backup that the sweep would delete:
\* the flow has failed without a sweep, and the backup is still there
C28_Witness ==
    /\ flow_pc = "failed"
    /\ pc = "t_raised"
    /\ Has(trace, "upload.raised")
    /\ ObjectNames[1] \in bucket
    /\ rpc = "idle"

=============================================================================
